---- MODULE Spec2Model ----
(***************************************************************************)
(* Payment service: the payment entity and its status state machine, the   *)
(* idempotency / lock protocol of CreatePayment, and RetryPayment, over a  *)
(* shared repository (SQLite, one connection) and a shared Redis store.    *)
(*                                                                         *)
(* Every use-case execution runs in an execution slot e \in Procs.  One    *)
(* action is one stretch of code between two suspension points (awaits on  *)
(* Redis or SQLite), so actions of different executions interleave exactly *)
(* where the asyncio tasks can.                                            *)
(*                                                                         *)
(* Strings the code computes on (reference, currency, the decimal text of  *)
(* the amount, timestamps) are sequences of one-character strings.         *)
(* Amounts are whole numbers of currency units.  created_at is the reading *)
(* of a clock that ticks once per created payment, updated_at the reading  *)
(* of the same clock at the last change of the entity.                     *)
(***************************************************************************)
EXTENDS Integers, Sequences, FiniteSets, TLC

\* ------------------------------------------------------------------ bounds
\* Number of execution slots (use-case executions that can overlap).
NumProcs == 2
\* Number of CreatePayment calls in one behaviour (also the number of ids).
MaxCreates == 2
\* Number of rows of the tables ListPayments is run over.
MaxRows == 3

Procs == 1..NumProcs
\* str(uuid4()) of the n-th payment created.
Uuid(n) == ToString(n)
PaymentIds == {Uuid(n) : n \in 1..MaxCreates}
Keys == {"k1", "k2"}

\* ------------------------------------------------------- program constants
\* Faulty variant: the retry limit raised without the schema following.
MAX_RETRIES_Raised == 3 + 1

\* Payment.MAX_RETRIES
MAX_RETRIES == 3

\* Faulty variant: a threshold ten times too high.
AMOUNT_THRESHOLD_Raised == 10 * 1000

\* SimulatedPaymentProcessor.AMOUNT_THRESHOLD
AMOUNT_THRESHOLD == 1000

\* The upper limit of CHECK(retries >= 0 AND retries <= 3).
SchemaMaxRetries == 3

None == "None"
NoRow == [absent |-> "row"]
NoPayment == [absent |-> "payment"]
NoArg == [op |-> "none"]
NoResult == [kind |-> "none"]

PENDING == "PENDING"
SUCCESS == "SUCCESS"
FAILED == "FAILED"
EXHAUSTED == "EXHAUSTED"
PaymentStatus == {PENDING, SUCCESS, FAILED, EXHAUSTED}
\* The statuses of the rows of the tables ListPayments is run over.
ListStatuses == {SUCCESS, FAILED, EXHAUSTED}

\* ------------------------------------------------------------------- state
VARIABLES
    repo,       \* payments table: payment id -> row, or NoRow
    idem,       \* Redis "idempotency:<key>": key -> payment id, or None
    lock,       \* Redis "lock:idempotency:<key>": key -> held
    nextId,     \* payments created so far, plus one
    ncreate,    \* CreatePayment calls started so far
    createdBy,  \* history: payment id -> the idempotency key whose call saved it
    retried,    \* history: payment id -> process_retry invocations for it
                \* (counted up to one more than MAX_RETRIES)
    holder,     \* history: key -> the execution that set the lock key, or 0
    pc,         \* execution -> its position in the use case
    arg,        \* execution -> the request it serves
    loc,        \* execution -> the locals of the use case
    result,     \* execution -> what the call returns or raises
    calls       \* history: execution -> how often it called each port operation

vars == <<repo, idem, lock, nextId, ncreate, createdBy, retried, holder, pc, arg, loc, result, calls>>

\* datetime.utcnow(): a clock that ticks when a payment is created; it reads
\* n from the creation of the n-th payment until the next one.
UtcNow == nextId

\* ----------------------------------------------------------------- strings
Whitespace == {" ", "\t"}

RECURSIVE LStrip(_)
LStrip(s) ==
    IF s # <<>> /\ Head(s) \in Whitespace THEN LStrip(Tail(s)) ELSE s

RECURSIVE RStrip(_)
RStrip(s) ==
    IF s # <<>> /\ s[Len(s)] \in Whitespace
    THEN RStrip(SubSeq(s, 1, Len(s) - 1)) ELSE s

\* str.strip()
Strip(s) == RStrip(LStrip(s))

UpperChar(c) ==
    CASE c = "m" -> "M" [] c = "x" -> "X" [] c = "n" -> "N"
      [] c = "u" -> "U" [] c = "s" -> "S" [] c = "d" -> "D"
      [] OTHER -> c

\* str.upper()
Upper(s) == [i \in 1..Len(s) |-> UpperChar(s[i])]

Digits == <<"0", "1", "2", "3", "4", "5", "6", "7", "8", "9">>

RECURSIVE NatStr(_)
NatStr(n) ==
    IF n < 10 THEN <<Digits[n + 1]>>
    ELSE NatStr(n \div 10) \o <<Digits[(n % 10) + 1]>>

\* str(Decimal) of a whole amount
DecimalStr(a) == IF a < 0 THEN <<"-">> \o NatStr(-a) ELSE NatStr(a)

DigitVal(c) == CHOOSE d \in 0..9 : Digits[d + 1] = c

RECURSIVE NatVal(_)
NatVal(s) ==
    IF Len(s) = 1 THEN DigitVal(s[1])
    ELSE 10 * NatVal(SubSeq(s, 1, Len(s) - 1)) + DigitVal(s[Len(s)])

\* Decimal(text)
DecimalOf(s) == IF Head(s) = "-" THEN -NatVal(Tail(s)) ELSE NatVal(s)

\* datetime.isoformat(): fixed-width text of a clock reading.
IsoFormat(t) == <<Digits[(t \div 10) + 1], Digits[(t % 10) + 1]>>

\* datetime.fromisoformat()
FromIsoFormat(s) == NatVal(s)

\* ---------------------------------------------------------- payment status
\* Faulty variant: every status but SUCCESS counts as retryable.
StatusCanRetry_NotSuccess(status) == status # SUCCESS

\* Faulty variant: a payment that is not finished can be retried.
StatusCanRetry_Unfinished(status) == status \in {PENDING, FAILED}

\* PaymentStatus.can_retry
StatusCanRetry(status) == status = FAILED

\* PaymentStatus.is_final
StatusIsFinal(status) == status \in {SUCCESS, EXHAUSTED}

\* ---------------------------------------------------------- payment entity
\* Faulty variant: an amount of zero is accepted.
CreateRejects_ZeroAmount(reference, amount, currency) ==
    IF reference = <<>> \/ Strip(reference) = <<>> THEN "reference"
    ELSE IF amount < 0 THEN "amount"
    ELSE IF Len(currency) # 3 THEN "currency"
    ELSE None

\* Payment.create: the field the validation rejects, or None.
CreateRejects(reference, amount, currency) ==
    IF reference = <<>> \/ Strip(reference) = <<>> THEN "reference"
    ELSE IF amount <= 0 THEN "amount"
    ELSE IF Len(currency) # 3 THEN "currency"
    ELSE None

\* Payment.create: the new entity (payment_id stands for str(uuid4()), now
\* for datetime.utcnow()).
\* Faulty variant: the factory creates the payment as FAILED.
PaymentCreate_AsFailed(payment_id, now, reference, amount, currency) ==
    [payment_id |-> payment_id,
     reference  |-> Strip(reference),
     amount     |-> amount,
     currency   |-> Upper(currency),
     status     |-> FAILED,
     retries    |-> 0,
     created_at |-> now,
     updated_at |-> now]

PaymentCreate(payment_id, now, reference, amount, currency) ==
    [payment_id |-> payment_id,
     reference  |-> Strip(reference),
     amount     |-> amount,
     currency   |-> Upper(currency),
     status     |-> PENDING,
     retries    |-> 0,
     created_at |-> now,
     updated_at |-> now]

\* Payment.can_retry
CanRetry(p) == StatusCanRetry(p.status) /\ p.retries < MAX_RETRIES

MarkAsSuccess(p) == [p EXCEPT !.status = SUCCESS, !.updated_at = UtcNow]
MarkAsFailed(p) == [p EXCEPT !.status = FAILED, !.updated_at = UtcNow]
MarkAsExhausted(p) == [p EXCEPT !.status = EXHAUSTED, !.updated_at = UtcNow]

\* Payment.increment_retries: the error it raises, or None.
\* Faulty variant: the status is not checked again.
IncrementRaises_CounterOnly(p) ==
    IF p.retries >= MAX_RETRIES THEN "MaxRetriesExceeded" ELSE None

IncrementRaises(p) ==
    IF ~StatusCanRetry(p.status) THEN "CannotRetry"
    ELSE IF p.retries >= MAX_RETRIES THEN "MaxRetriesExceeded"
    ELSE None

\* Faulty variant: the counter is not incremented.
IncrementRetries_Skip(p) == p

\* Payment.increment_retries: the entity after the call.
IncrementRetries(p) ==
    IF IncrementRaises(p) # None THEN p
    ELSE [p EXCEPT !.retries = @ + 1, !.updated_at = UtcNow]

\* Faulty variant: a failed retry always leaves the payment FAILED.
ProcessRetryResult_NeverExhausted(p, success) ==
    IF success THEN MarkAsSuccess(p) ELSE MarkAsFailed(p)

\* Faulty variant: EXHAUSTED only once the counter is above the maximum.
ProcessRetryResult_Late(p, success) ==
    IF success THEN MarkAsSuccess(p)
    ELSE IF p.retries > MAX_RETRIES THEN MarkAsExhausted(p)
    ELSE MarkAsFailed(p)

\* Payment.process_retry_result
ProcessRetryResult(p, success) ==
    IF success THEN MarkAsSuccess(p)
    ELSE IF p.retries >= MAX_RETRIES THEN MarkAsExhausted(p)
    ELSE MarkAsFailed(p)

\* --------------------------------------------------------------- processor
\* Faulty variant: an amount equal to the threshold fails.
Process_Strict(amount) == amount < AMOUNT_THRESHOLD

\* SimulatedPaymentProcessor.process: success of the initial attempt.
Process(amount) == amount <= AMOUNT_THRESHOLD

\* ------------------------------------------------------------- repository
\* The parameters SQLitePaymentRepository binds for a payment (save, update).
RowOf(p) ==
    [payment_id |-> p.payment_id,
     reference  |-> p.reference,
     amount     |-> DecimalStr(p.amount),
     currency   |-> p.currency,
     status     |-> p.status,
     retries    |-> p.retries,
     created_at |-> IsoFormat(p.created_at),
     updated_at |-> IsoFormat(p.updated_at)]

\* SQLitePaymentRepository._row_to_entity
RowToEntity(row) ==
    [payment_id |-> row.payment_id,
     reference  |-> row.reference,
     amount     |-> DecimalOf(row.amount),
     currency   |-> row.currency,
     status     |-> row.status,
     retries    |-> row.retries,
     created_at |-> FromIsoFormat(row.created_at),
     updated_at |-> FromIsoFormat(row.updated_at)]

\* The CHECK constraints of the payments table.
SchemaCheck(row) ==
    /\ Len(row.currency) = 3
    /\ row.status \in PaymentStatus
    /\ row.retries >= 0 /\ row.retries <= SchemaMaxRetries

\* PaymentResponse.from_entity (float(amount) of a whole amount is the amount)
Response(p) ==
    [payment_id |-> p.payment_id,
     reference  |-> p.reference,
     amount     |-> p.amount,
     currency   |-> p.currency,
     status     |-> p.status,
     retries    |-> p.retries,
     created_at |-> IsoFormat(p.created_at),
     updated_at |-> IsoFormat(p.updated_at)]

\* ------------------------------------------------------------------ inputs
Request(reference, amount, currency) ==
    [reference |-> reference, amount |-> amount, currency |-> currency]

\* Requests the factory accepts: at the threshold (succeeds) and above it.
ValidRequests ==
    { Request(<<"F", "1">>, 1000, <<"U", "S", "D">>),
      Request(<<" ", "F", "2", " ">>, 1500, <<"m", "x", "n">>) }

\* More accepted requests, and one rejected request for each validation rule.
MoreRequests ==
    { Request(<<"F", "3">>, 500, <<"m", "x", "n">>),
      Request(<<"F", "4">>, 1001, <<"U", "S", "D">>),
      Request(<<>>, 500, <<"U", "S", "D">>),
      Request(<<" ", " ">>, 500, <<"U", "S", "D">>),
      Request(<<"F", "5">>, 0, <<"U", "S", "D">>),
      Request(<<"F", "6">>, -5, <<"U", "S", "D">>),
      Request(<<"F", "7">>, 500, <<"U", "S">>),
      Request(<<"F", "8">>, 500, <<"U", "S", "D", "X">>) }

AllRequests == ValidRequests \cup MoreRequests

CallNames ==
    {"get_existing_result", "find_by_id", "acquire_lock", "release_lock",
     "save_result", "save", "update", "process", "process_retry",
     "find_all", "count"}

NoCalls == [c \in CallNames |-> 0]

NoLocals ==
    [existing      |-> None,       \* payment id of existing_result
     lock_acquired |-> FALSE,
     payment       |-> NoPayment,  \* the entity being worked on
     loaded        |-> NoPayment,  \* history: the entity as find_by_id returned it
     payments      |-> <<>>,       \* the page find_all returned
     cleared       |-> 0,          \* history: whose lock release_lock deleted
     success       |-> FALSE]      \* processing_result.success

\* ListPaymentsResponse
Listed(payments, total, limit, offset) ==
    [kind |-> "ok",
     payments |-> [i \in 1..Len(payments) |-> Response(payments[i])],
     total |-> total, limit |-> limit, offset |-> offset]

\* GetPayment returns the PaymentResponse alone.
Found(p) == [kind |-> "ok", payment |-> Response(p)]

Ok(p, is_new) == [kind |-> "ok", payment |-> Response(p), is_new |-> is_new]
Raise(error) == [kind |-> "error", error |-> error]

\* CannotRetryPaymentError: carries the current status.
CannotRetryPaymentError(payment_id, current_status) ==
    [kind |-> "error", error |-> "CannotRetry",
     payment_id |-> payment_id, current_status |-> current_status]

\* MaxRetriesExceededError: carries the maximum.
MaxRetriesExceededError(payment_id, max_retries) ==
    [kind |-> "error", error |-> "MaxRetriesExceeded",
     payment_id |-> payment_id, max_retries |-> max_retries]

\* Faulty variant: the counter is checked before the status.
RetryRefusal_CounterFirst(payment) ==
    IF CanRetry(payment) THEN NoResult
    ELSE IF payment.retries >= MAX_RETRIES
    THEN MaxRetriesExceededError(payment.payment_id, MAX_RETRIES)
    ELSE CannotRetryPaymentError(payment.payment_id, payment.status)

\* RetryPayment step 2: the error the eligibility check raises, or NoResult.
RetryRefusal(payment) ==
    IF CanRetry(payment) THEN NoResult
    ELSE IF ~StatusCanRetry(payment.status)
    THEN CannotRetryPaymentError(payment.payment_id, payment.status)
    ELSE MaxRetriesExceededError(payment.payment_id, MAX_RETRIES)

Called(e, name) == [calls EXCEPT ![e][name] = @ + 1]

\* Redis state after construction, empty payments table.
Init ==
    /\ repo = [p \in PaymentIds |-> NoRow]
    /\ idem = [k \in Keys |-> None]
    /\ lock = [k \in Keys |-> FALSE]
    /\ holder = [k \in Keys |-> 0]
    /\ nextId = 1
    /\ ncreate = 0
    /\ createdBy = [p \in PaymentIds |-> None]
    /\ retried = [p \in PaymentIds |-> 0]
    /\ pc = [e \in Procs |-> "idle"]
    /\ arg = [e \in Procs |-> NoArg]
    /\ loc = [e \in Procs |-> NoLocals]
    /\ result = [e \in Procs |-> NoResult]
    /\ calls = [e \in Procs |-> NoCalls]

\* ------------------------------------------------------------- repository
\* Faulty variant: a SELECT without its WHERE clause, the first row is taken.
FindById_NoWhere(payment_id) ==
    IF \E p \in DOMAIN repo : repo[p] # NoRow
    THEN RowToEntity(repo[CHOOSE p \in DOMAIN repo : repo[p] # NoRow])
    ELSE NoPayment

\* SQLitePaymentRepository.find_by_id
FindById(payment_id) ==
    IF payment_id \in DOMAIN repo /\ repo[payment_id] # NoRow
    THEN RowToEntity(repo[payment_id])
    ELSE NoPayment

\* SQLitePaymentRepository.save: INSERT of the payment's row.  (The CHECK
\* constraints are not guards of save and update: by RowsAdmitted no write of
\* the use cases violates them.)
RepoSave(p) == [repo EXCEPT ![p.payment_id] = RowOf(p)]

\* SQLitePaymentRepository.update: UPDATE ... WHERE payment_id = ?
\* Faulty variant: an UPDATE without its WHERE clause.
RepoUpdate_NoWhere(p) ==
    [q \in DOMAIN repo |->
        IF repo[q] = NoRow THEN NoRow
        ELSE [repo[q] EXCEPT !.status = p.status, !.retries = p.retries,
                             !.updated_at = IsoFormat(p.updated_at)]]

RepoUpdate(p) ==
    IF repo[p.payment_id] = NoRow THEN repo
    ELSE [repo EXCEPT ![p.payment_id] =
            [RowOf(p) EXCEPT !.created_at = repo[p.payment_id].created_at]]

\* A truthy str | None: neither None nor the empty string.
Truthy(status) == status # None /\ status # ""

\* SQLite's comparison of two TEXT values of digits (BINARY collation).
RECURSIVE TextLess(_, _)
TextLess(a, b) ==
    IF b = <<>> THEN FALSE
    ELSE IF a = <<>> THEN TRUE
    ELSE IF Head(a) # Head(b) THEN DigitVal(Head(a)) < DigitVal(Head(b))
    ELSE TextLess(Tail(a), Tail(b))

\* WHERE status = ? (or no WHERE clause): the ids of the selected rows.
Matching(status) ==
    {p \in DOMAIN repo :
        repo[p] # NoRow /\ (Truthy(status) => repo[p].status = status)}

\* Faulty variant: ORDER BY created_at ASC.
RECURSIVE OrderByCreatedAtDesc_Asc(_)
OrderByCreatedAtDesc_Asc(ids) ==
    IF ids = {} THEN <<>>
    ELSE LET first == CHOOSE p \in ids : \A q \in ids :
                          ~TextLess(repo[q].created_at, repo[p].created_at)
         IN <<first>> \o OrderByCreatedAtDesc_Asc(ids \ {first})

\* ORDER BY created_at DESC over the selected rows.
RECURSIVE OrderByCreatedAtDesc(_)
OrderByCreatedAtDesc(ids) ==
    IF ids = {} THEN <<>>
    ELSE LET first == CHOOSE p \in ids : \A q \in ids :
                          ~TextLess(repo[p].created_at, repo[q].created_at)
         IN <<first>> \o OrderByCreatedAtDesc(ids \ {first})

\* LIMIT ? OFFSET ? (for limit >= 0 and offset >= 0)
LimitOffset(seq, limit, offset) ==
    SubSeq(seq, offset + 1,
           IF offset + limit < Len(seq) THEN offset + limit ELSE Len(seq))

\* SQLitePaymentRepository.find_all
FindAll(status, limit, offset) ==
    LET ids == LimitOffset(OrderByCreatedAtDesc(Matching(status)), limit, offset)
    IN [i \in 1..Len(ids) |-> RowToEntity(repo[ids[i]])]

\* SQLitePaymentRepository.count
Count(status) == Cardinality(Matching(status))

\* ----------------------------------------------------------- CreatePayment
\* A caller invokes CreatePaymentUseCase.execute.
StartCreate(e, requests) ==
    /\ pc[e] = "idle"
    /\ ncreate < MaxCreates
    /\ \E k \in Keys, r \in requests :
         arg' = [arg EXCEPT ![e] =
                   [op |-> "create", idempotency_key |-> k,
                    reference |-> r.reference, amount |-> r.amount,
                    currency |-> r.currency, mapped |-> idem[k]]]
    /\ ncreate' = ncreate + 1
    /\ pc' = [pc EXCEPT ![e] = "c_get1"]
    /\ UNCHANGED <<repo, idem, lock, nextId, createdBy, retried, holder, loc, result, calls>>

\* Step 1: get_existing_result.
CreateGet1(e) ==
    /\ pc[e] = "c_get1"
    /\ loc' = [loc EXCEPT ![e].existing = idem[arg[e].idempotency_key]]
    /\ pc' = [pc EXCEPT ![e] =
                IF idem[arg[e].idempotency_key] # None THEN "c_find1" ELSE "c_lock"]
    /\ calls' = Called(e, "get_existing_result")
    /\ UNCHANGED <<repo, idem, lock, nextId, ncreate, createdBy, retried, holder, arg, result>>

\* Faulty variant: a replay answers with the payment as its creation left it.
CreateFind1_AsCreated(e) ==
    /\ pc[e] = "c_find1"
    /\ calls' = Called(e, "find_by_id")
    /\ IF FindById(loc[e].existing) # NoPayment
       THEN /\ result' = [result EXCEPT ![e] =
                   LET p == FindById(loc[e].existing)
                   IN Ok([p EXCEPT
                            !.status = IF Process(p.amount) THEN SUCCESS ELSE FAILED,
                            !.retries = 0], FALSE)]
            /\ pc' = [pc EXCEPT ![e] = "done"]
       ELSE /\ pc' = [pc EXCEPT ![e] = "c_lock"]
            /\ UNCHANGED result
    /\ UNCHANGED <<repo, idem, lock, nextId, ncreate, createdBy, retried, holder, arg, loc>>

\* Faulty variant: a replay validates the request before it answers.
CreateFind1_Validates(e) ==
    /\ pc[e] = "c_find1"
    /\ calls' = Called(e, "find_by_id")
    /\ IF FindById(loc[e].existing) # NoPayment
       THEN /\ result' = [result EXCEPT ![e] =
                   IF CreateRejects(arg[e].reference, arg[e].amount,
                                    arg[e].currency) # None
                   THEN Raise("ValidationError")
                   ELSE Ok(FindById(loc[e].existing), FALSE)]
            /\ pc' = [pc EXCEPT ![e] = "done"]
       ELSE /\ pc' = [pc EXCEPT ![e] = "c_lock"]
            /\ UNCHANGED result
    /\ UNCHANGED <<repo, idem, lock, nextId, ncreate, createdBy, retried, holder, arg, loc>>

\* Faulty variant: a mapping whose payment is gone is an error.
CreateFind1_Raises(e) ==
    /\ pc[e] = "c_find1"
    /\ calls' = Called(e, "find_by_id")
    /\ result' = [result EXCEPT ![e] =
                    IF FindById(loc[e].existing) # NoPayment
                    THEN Ok(FindById(loc[e].existing), FALSE)
                    ELSE Raise("NotFound")]
    /\ pc' = [pc EXCEPT ![e] = "done"]
    /\ UNCHANGED <<repo, idem, lock, nextId, ncreate, createdBy, retried, holder, arg, loc>>

\* Faulty variant: a replay publishes the mapping again.
CreateFind1_Republish(e) ==
    /\ pc[e] = "c_find1"
    /\ IF FindById(loc[e].existing) # NoPayment
       THEN /\ result' = [result EXCEPT ![e] = Ok(FindById(loc[e].existing), FALSE)]
            /\ pc' = [pc EXCEPT ![e] = "done"]
            /\ calls' = [calls EXCEPT ![e]["find_by_id"] = @ + 1,
                                      ![e]["save_result"] = @ + 1]
       ELSE /\ pc' = [pc EXCEPT ![e] = "c_lock"]
            /\ calls' = Called(e, "find_by_id")
            /\ UNCHANGED result
    /\ UNCHANGED <<repo, idem, lock, nextId, ncreate, createdBy, retried, holder, arg, loc>>

\* Step 1: find_by_id of the mapped payment; return it if it exists.
CreateFind1(e) ==
    /\ pc[e] = "c_find1"
    /\ calls' = Called(e, "find_by_id")
    /\ IF FindById(loc[e].existing) # NoPayment
       THEN /\ result' = [result EXCEPT ![e] = Ok(FindById(loc[e].existing), FALSE)]
            /\ pc' = [pc EXCEPT ![e] = "done"]
       ELSE /\ pc' = [pc EXCEPT ![e] = "c_lock"]
            /\ UNCHANGED result
    /\ UNCHANGED <<repo, idem, lock, nextId, ncreate, createdBy, retried, holder, arg, loc>>

\* Faulty variant: without a mapping at the re-check, the lock is tried again.
CreateGet2_Poll(e) ==
    /\ pc[e] = "c_get2"
    /\ loc' = [loc EXCEPT ![e].existing = idem[arg[e].idempotency_key]]
    /\ pc' = [pc EXCEPT ![e] =
                IF idem[arg[e].idempotency_key] # None THEN "c_find2" ELSE "c_lock"]
    /\ calls' = [calls EXCEPT ![e]["get_existing_result"] = 2]
    /\ UNCHANGED <<repo, idem, lock, nextId, ncreate, createdBy, retried, holder, arg, result>>

\* Faulty variant: a lock that is not acquired is an error.
CreateLock_Raises(e) ==
    /\ pc[e] = "c_lock"
    /\ LET k == arg[e].idempotency_key
           acquired == ~lock[k]
       IN /\ lock' = [lock EXCEPT ![k] = TRUE]
          /\ loc' = [loc EXCEPT ![e].lock_acquired = acquired]
          /\ pc' = [pc EXCEPT ![e] = IF acquired THEN "c_save" ELSE "done"]
          /\ result' = [result EXCEPT ![e] =
                          IF acquired THEN @ ELSE Raise("LockNotAcquired")]
          /\ holder' = IF acquired THEN [holder EXCEPT ![k] = e] ELSE holder
    /\ calls' = Called(e, "acquire_lock")
    /\ UNCHANGED <<repo, idem, nextId, ncreate, createdBy, retried, arg>>

\* Faulty variant: SET without NX, every caller obtains the lock.
CreateLock_NoNX(e) ==
    /\ pc[e] = "c_lock"
    /\ lock' = [lock EXCEPT ![arg[e].idempotency_key] = TRUE]
    /\ loc' = [loc EXCEPT ![e].lock_acquired = TRUE]
    /\ holder' = [holder EXCEPT ![arg[e].idempotency_key] = e]
    /\ pc' = [pc EXCEPT ![e] = "c_save"]
    /\ calls' = Called(e, "acquire_lock")
    /\ UNCHANGED <<repo, idem, nextId, ncreate, createdBy, retried, arg, result>>

\* Step 2: acquire_lock (SET lock key NX PX ttl).
CreateLock(e) ==
    /\ pc[e] = "c_lock"
    /\ LET k == arg[e].idempotency_key
           acquired == ~lock[k]
       IN /\ lock' = [lock EXCEPT ![k] = TRUE]
          /\ loc' = [loc EXCEPT ![e].lock_acquired = acquired]
          /\ pc' = [pc EXCEPT ![e] = IF acquired THEN "c_save" ELSE "c_get2"]
          /\ holder' = IF acquired THEN [holder EXCEPT ![k] = e] ELSE holder
    /\ calls' = Called(e, "acquire_lock")
    /\ UNCHANGED <<repo, idem, nextId, ncreate, createdBy, retried, arg, result>>

\* Lock not acquired: get_existing_result once more.
CreateGet2(e) ==
    /\ pc[e] = "c_get2"
    /\ loc' = [loc EXCEPT ![e].existing = idem[arg[e].idempotency_key]]
    /\ pc' = [pc EXCEPT ![e] =
                IF idem[arg[e].idempotency_key] # None THEN "c_find2" ELSE "c_save"]
    /\ calls' = Called(e, "get_existing_result")
    /\ UNCHANGED <<repo, idem, lock, nextId, ncreate, createdBy, retried, holder, arg, result>>

\* Lock not acquired: find_by_id of the mapped payment; return it if it exists.
CreateFind2(e) ==
    /\ pc[e] = "c_find2"
    /\ calls' = Called(e, "find_by_id")
    /\ IF FindById(loc[e].existing) # NoPayment
       THEN /\ result' = [result EXCEPT ![e] = Ok(FindById(loc[e].existing), FALSE)]
            /\ pc' = [pc EXCEPT ![e] = "done"]
       ELSE /\ pc' = [pc EXCEPT ![e] = "c_save"]
            /\ UNCHANGED result
    /\ UNCHANGED <<repo, idem, lock, nextId, ncreate, createdBy, retried, holder, arg, loc>>

\* Faulty variant: the finally block releases the lock unconditionally.
Leave_Always(e) == "c_release"

\* The try block is left through the finally block, which calls release_lock
\* only if this execution acquired the lock.
Leave(e) == IF loc[e].lock_acquired THEN "c_release" ELSE "done"

\* Steps 3 and 4: Payment.create, then repository.save in PENDING.  A
\* ValidationError leaves through the finally block.
CreateSave(e) ==
    /\ pc[e] = "c_save"
    /\ IF CreateRejects(arg[e].reference, arg[e].amount, arg[e].currency) # None
       THEN /\ result' = [result EXCEPT ![e] = Raise("ValidationError")]
            /\ pc' = [pc EXCEPT ![e] = Leave(e)]
            /\ UNCHANGED <<repo, nextId, createdBy, loc, calls>>
       ELSE LET payment == PaymentCreate(Uuid(nextId), UtcNow, arg[e].reference,
                                         arg[e].amount, arg[e].currency)
            IN /\ repo' = RepoSave(payment)
               /\ nextId' = nextId + 1
               /\ createdBy' = [createdBy EXCEPT ![Uuid(nextId)] = arg[e].idempotency_key]
               /\ loc' = [loc EXCEPT ![e].payment = payment]
               /\ calls' = Called(e, "save")
               /\ pc' = [pc EXCEPT ![e] = "c_update"]
               /\ UNCHANGED result
    /\ UNCHANGED <<idem, lock, ncreate, retried, holder, arg>>

\* Faulty variant: the initial attempt goes through process_retry.
CreateUpdate_ProcessRetry(e) ==
    /\ pc[e] = "c_update"
    /\ \E success \in BOOLEAN :
         LET payment == IF success THEN MarkAsSuccess(loc[e].payment)
                        ELSE MarkAsFailed(loc[e].payment)
         IN /\ loc' = [loc EXCEPT ![e].success = success, ![e].payment = payment]
            /\ repo' = RepoUpdate(payment)
    /\ calls' = [calls EXCEPT ![e]["process_retry"] = @ + 1, ![e]["update"] = @ + 1]
    /\ pc' = [pc EXCEPT ![e] = "c_publish"]
    /\ UNCHANGED <<idem, lock, nextId, ncreate, createdBy, retried, holder, arg, result>>

\* Steps 5 and 6: processor.process (which does not suspend), mark_as_success
\* or mark_as_failed, then repository.update.
\* Faulty variant: the outcome of the processor is not marked on the payment.
CreateUpdate_Unmarked(e) ==
    /\ pc[e] = "c_update"
    /\ loc' = [loc EXCEPT ![e].success = Process(loc[e].payment.amount)]
    /\ repo' = RepoUpdate(loc[e].payment)
    /\ calls' = [calls EXCEPT ![e]["process"] = @ + 1, ![e]["update"] = @ + 1]
    /\ pc' = [pc EXCEPT ![e] = "c_publish"]
    /\ UNCHANGED <<idem, lock, nextId, ncreate, createdBy, retried, holder, arg, result>>

CreateUpdate(e) ==
    /\ pc[e] = "c_update"
    /\ LET success == Process(loc[e].payment.amount)
           payment == IF success THEN MarkAsSuccess(loc[e].payment)
                      ELSE MarkAsFailed(loc[e].payment)
       IN /\ loc' = [loc EXCEPT ![e].success = success, ![e].payment = payment]
          /\ repo' = RepoUpdate(payment)
    /\ calls' = [calls EXCEPT ![e]["process"] = @ + 1, ![e]["update"] = @ + 1]
    /\ pc' = [pc EXCEPT ![e] = "c_publish"]
    /\ UNCHANGED <<idem, lock, nextId, ncreate, createdBy, retried, holder, arg, result>>

\* Faulty variant: the mapping is not published.
CreatePublish_NoMapping(e) ==
    /\ pc[e] = "c_publish"
    /\ result' = [result EXCEPT ![e] = Ok(loc[e].payment, TRUE)]
    /\ pc' = [pc EXCEPT ![e] = Leave(e)]
    /\ UNCHANGED <<repo, idem, lock, nextId, ncreate, createdBy, retried, holder, arg, loc, calls>>

\* Step 7: save_result (SET idempotency key EX ttl), then the return value.
CreatePublish(e) ==
    /\ pc[e] = "c_publish"
    /\ idem' = [idem EXCEPT ![arg[e].idempotency_key] = loc[e].payment.payment_id]
    /\ calls' = Called(e, "save_result")
    /\ result' = [result EXCEPT ![e] = Ok(loc[e].payment, TRUE)]
    /\ pc' = [pc EXCEPT ![e] = Leave(e)]
    /\ UNCHANGED <<repo, lock, nextId, ncreate, createdBy, retried, holder, arg, loc>>

\* Faulty variant: a fenced release, which deletes the lock key only if this
\* execution set it.
CreateRelease_Fenced(e) ==
    /\ pc[e] = "c_release"
    /\ LET k == arg[e].idempotency_key
       IN IF holder[k] = e
          THEN /\ lock' = [lock EXCEPT ![k] = FALSE]
               /\ holder' = [holder EXCEPT ![k] = 0]
          ELSE UNCHANGED <<lock, holder>>
    /\ calls' = Called(e, "release_lock")
    /\ pc' = [pc EXCEPT ![e] = "done"]
    /\ UNCHANGED <<repo, idem, nextId, ncreate, createdBy, retried, arg, loc, result>>

\* finally: release_lock (DEL lock key), only if this execution acquired it.
CreateRelease(e) ==
    /\ pc[e] = "c_release"
    /\ LET k == arg[e].idempotency_key
       IN /\ lock' = [lock EXCEPT ![k] = FALSE]
          /\ holder' = [holder EXCEPT ![k] = 0]
          /\ loc' = [loc EXCEPT ![e].cleared =
                        IF lock[k] /\ holder[k] # e THEN holder[k] ELSE 0]
    /\ calls' = Called(e, "release_lock")
    /\ pc' = [pc EXCEPT ![e] = "done"]
    /\ UNCHANGED <<repo, idem, nextId, ncreate, createdBy, retried, arg, result>>

\* The lock key of k expires (PX ttl).
\* Faulty variant: the lock key is set without a time to live.
ExpireLock_NoTTL(k) ==
    /\ lock[k]
    /\ UNCHANGED vars

ExpireLock(k) ==
    /\ lock[k]
    /\ lock' = [lock EXCEPT ![k] = FALSE]
    /\ holder' = [holder EXCEPT ![k] = 0]
    /\ UNCHANGED <<repo, idem, nextId, ncreate, createdBy, retried,
                   pc, arg, loc, result, calls>>

\* The process serving execution e dies: the execution stops where it is
\* and its finally block does not run.
Crash(e) ==
    /\ pc[e] \notin {"idle", "done", "crashed"}
    /\ pc' = [pc EXCEPT ![e] = "crashed"]
    /\ UNCHANGED <<repo, idem, lock, nextId, ncreate, createdBy, retried, holder,
                   arg, loc, result, calls>>

\* Faulty variant: an exception skips the release of the lock.
CreateSaveFails_NoFinally(e) ==
    /\ pc[e] = "c_save"
    /\ CreateRejects(arg[e].reference, arg[e].amount, arg[e].currency) = None
    /\ calls' = Called(e, "save")
    /\ result' = [result EXCEPT ![e] = Raise("RepositoryError")]
    /\ pc' = [pc EXCEPT ![e] = "done"]
    /\ UNCHANGED <<repo, idem, lock, nextId, ncreate, createdBy, retried, holder, arg, loc>>

\* Step 4 fails: repository.save raises (the INSERT is not committed).
CreateSaveFails(e) ==
    /\ pc[e] = "c_save"
    /\ CreateRejects(arg[e].reference, arg[e].amount, arg[e].currency) = None
    /\ calls' = Called(e, "save")
    /\ result' = [result EXCEPT ![e] = Raise("RepositoryError")]
    /\ pc' = [pc EXCEPT ![e] = Leave(e)]
    /\ UNCHANGED <<repo, idem, lock, nextId, ncreate, createdBy, retried, holder, arg, loc>>

\* Faulty variant: the mapping is published although the processor failed.
CreateProcessFails_Publishes(e) ==
    /\ pc[e] = "c_update"
    /\ calls' = Called(e, "process")
    /\ idem' = [idem EXCEPT ![arg[e].idempotency_key] = loc[e].payment.payment_id]
    /\ result' = [result EXCEPT ![e] = Raise("ProcessorError")]
    /\ pc' = [pc EXCEPT ![e] = Leave(e)]
    /\ UNCHANGED <<repo, lock, nextId, ncreate, createdBy, retried, holder, arg, loc>>

\* Step 5 fails: processor.process raises; the payment stays PENDING.
CreateProcessFails(e) ==
    /\ pc[e] = "c_update"
    /\ calls' = Called(e, "process")
    /\ result' = [result EXCEPT ![e] = Raise("ProcessorError")]
    /\ pc' = [pc EXCEPT ![e] = Leave(e)]
    /\ UNCHANGED <<repo, idem, lock, nextId, ncreate, createdBy, retried, holder, arg, loc>>

\* Step 6 fails: repository.update raises after the processor has answered;
\* the stored payment stays PENDING.
CreateUpdateFails(e) ==
    /\ pc[e] = "c_update"
    /\ LET success == Process(loc[e].payment.amount)
           payment == IF success THEN MarkAsSuccess(loc[e].payment)
                      ELSE MarkAsFailed(loc[e].payment)
       IN loc' = [loc EXCEPT ![e].success = success, ![e].payment = payment]
    /\ calls' = [calls EXCEPT ![e]["process"] = @ + 1, ![e]["update"] = @ + 1]
    /\ result' = [result EXCEPT ![e] = Raise("RepositoryError")]
    /\ pc' = [pc EXCEPT ![e] = Leave(e)]
    /\ UNCHANGED <<repo, idem, lock, nextId, ncreate, createdBy, retried, holder, arg>>

\* Step 7 fails: save_result raises; no mapping is published.
CreatePublishFails(e) ==
    /\ pc[e] = "c_publish"
    /\ calls' = Called(e, "save_result")
    /\ result' = [result EXCEPT ![e] = Raise("IdempotencyError")]
    /\ pc' = [pc EXCEPT ![e] = Leave(e)]
    /\ UNCHANGED <<repo, idem, lock, nextId, ncreate, createdBy, retried, holder, arg, loc>>

\* ------------------------------------------------------------ RetryPayment
\* A caller invokes RetryPaymentUseCase.execute.
StartRetry(e) ==
    /\ pc[e] = "idle"
    /\ \E p \in PaymentIds :
         arg' = [arg EXCEPT ![e] = [op |-> "retry", payment_id |-> p]]
    /\ pc' = [pc EXCEPT ![e] = "r_find"]
    /\ UNCHANGED <<repo, idem, lock, nextId, ncreate, createdBy, retried, holder, loc, result, calls>>

\* Steps 1 to 3: find_by_id, the eligibility check, increment_retries.
RetryFind(e) ==
    /\ pc[e] = "r_find"
    /\ calls' = Called(e, "find_by_id")
    /\ LET payment == FindById(arg[e].payment_id)
       IN IF payment = NoPayment
          THEN /\ result' = [result EXCEPT ![e] = Raise("NotFound")]
               /\ pc' = [pc EXCEPT ![e] = "done"]
               /\ UNCHANGED loc
          ELSE IF RetryRefusal(payment) # NoResult
          THEN /\ result' = [result EXCEPT ![e] = RetryRefusal(payment)]
               /\ pc' = [pc EXCEPT ![e] = "done"]
               /\ loc' = [loc EXCEPT ![e].loaded = payment]
          ELSE IF IncrementRaises(payment) # None
          THEN /\ result' = [result EXCEPT ![e] = Raise(IncrementRaises(payment))]
               /\ pc' = [pc EXCEPT ![e] = "done"]
               /\ loc' = [loc EXCEPT ![e].loaded = payment]
          ELSE /\ loc' = [loc EXCEPT ![e].loaded = payment,
                                     ![e].payment = IncrementRetries(payment)]
               /\ pc' = [pc EXCEPT ![e] = "r_update"]
               /\ UNCHANGED result
    /\ UNCHANGED <<repo, idem, lock, nextId, ncreate, createdBy, retried, holder, arg>>

\* Steps 4 and 5: processor.process_retry (a random outcome; it does not
\* suspend), process_retry_result, repository.update, then the response.
RetryUpdate(e) ==
    /\ pc[e] = "r_update"
    /\ \E success \in BOOLEAN :
         LET payment == ProcessRetryResult(loc[e].payment, success)
         IN /\ loc' = [loc EXCEPT ![e].success = success, ![e].payment = payment]
            /\ repo' = RepoUpdate(payment)
            /\ result' = [result EXCEPT ![e] = Ok(payment, FALSE)]
    /\ calls' = [calls EXCEPT ![e]["process_retry"] = @ + 1, ![e]["update"] = @ + 1]
    /\ retried' = [retried EXCEPT ![arg[e].payment_id] =
                                     IF @ > MAX_RETRIES THEN @ ELSE @ + 1]
    /\ pc' = [pc EXCEPT ![e] = "done"]
    /\ UNCHANGED <<idem, lock, nextId, ncreate, createdBy, holder, arg>>

\* Step 4 fails: process_retry raises; the counter was incremented on the
\* entity only.
RetryProcessFails(e) ==
    /\ pc[e] = "r_update"
    /\ calls' = Called(e, "process_retry")
    /\ result' = [result EXCEPT ![e] = Raise("ProcessorError")]
    /\ pc' = [pc EXCEPT ![e] = "done"]
    /\ UNCHANGED <<repo, idem, lock, nextId, ncreate, createdBy, retried, holder, arg, loc>>

\* Step 5 fails: repository.update raises.  update executes its UPDATE
\* statement and then commits, and nothing rolls back: when execute raises
\* the row is as it was; when commit raises the statement has been executed
\* on the one connection every later read and commit of the service goes
\* through, so the row it wrote is what they see.
RetryUpdateFails(e) ==
    /\ pc[e] = "r_update"
    /\ \E success \in BOOLEAN, executed \in BOOLEAN :
         LET payment == ProcessRetryResult(loc[e].payment, success)
         IN /\ loc' = [loc EXCEPT ![e].success = success, ![e].payment = payment]
            /\ repo' = IF executed THEN RepoUpdate(payment) ELSE repo
    /\ calls' = [calls EXCEPT ![e]["process_retry"] = @ + 1, ![e]["update"] = @ + 1]
    /\ retried' = [retried EXCEPT ![arg[e].payment_id] =
                                     IF @ > MAX_RETRIES THEN @ ELSE @ + 1]
    /\ result' = [result EXCEPT ![e] = Raise("RepositoryError")]
    /\ pc' = [pc EXCEPT ![e] = "done"]
    /\ UNCHANGED <<idem, lock, nextId, ncreate, createdBy, holder, arg>>

\* -------------------------------------------------------------- GetPayment
\* A caller invokes GetPaymentUseCase.execute.
StartGet(e) ==
    /\ pc[e] = "idle"
    /\ \E p \in PaymentIds :
         arg' = [arg EXCEPT ![e] = [op |-> "get", payment_id |-> p]]
    /\ pc' = [pc EXCEPT ![e] = "g_find"]
    /\ UNCHANGED <<repo, idem, lock, nextId, ncreate, createdBy, retried, holder, loc, result, calls>>

\* find_by_id, then NotFound or the response.
GetFind(e) ==
    /\ pc[e] = "g_find"
    /\ calls' = Called(e, "find_by_id")
    /\ LET payment == FindById(arg[e].payment_id)
       IN result' = [result EXCEPT ![e] =
                       IF payment = NoPayment THEN Raise("NotFound")
                       ELSE Found(payment)]
    /\ pc' = [pc EXCEPT ![e] = "done"]
    /\ UNCHANGED <<repo, idem, lock, nextId, ncreate, createdBy, retried, holder, arg, loc>>

\* ------------------------------------------------------------ ListPayments
\* A caller invokes ListPaymentsUseCase.execute; the status filter is
\* validated before anything is awaited.
StartList(e, filters, limits, offsets) ==
    /\ pc[e] = "idle"
    /\ \E status \in filters, limit \in limits, offset \in offsets :
         /\ arg' = [arg EXCEPT ![e] = [op |-> "list", status |-> status,
                                       limit |-> limit, offset |-> offset]]
         /\ IF Truthy(status) /\ status \notin PaymentStatus
            THEN /\ result' = [result EXCEPT ![e] = Raise("ValidationError")]
                 /\ pc' = [pc EXCEPT ![e] = "done"]
            ELSE /\ pc' = [pc EXCEPT ![e] = "l_find"]
                 /\ UNCHANGED result
    /\ UNCHANGED <<repo, idem, lock, nextId, ncreate, createdBy, retried, holder, loc, calls>>

\* repository.find_all
ListFindAll(e) ==
    /\ pc[e] = "l_find"
    /\ loc' = [loc EXCEPT ![e].payments =
                  FindAll(arg[e].status, arg[e].limit, arg[e].offset)]
    /\ calls' = Called(e, "find_all")
    /\ pc' = [pc EXCEPT ![e] = "l_count"]
    /\ UNCHANGED <<repo, idem, lock, nextId, ncreate, createdBy, retried, holder, arg, result>>

\* repository.count, then the response.
ListCount(e) ==
    /\ pc[e] = "l_count"
    /\ result' = [result EXCEPT ![e] =
                     Listed(loc[e].payments, Count(arg[e].status),
                            arg[e].limit, arg[e].offset)]
    /\ calls' = Called(e, "count")
    /\ pc' = [pc EXCEPT ![e] = "done"]
    /\ UNCHANGED <<repo, idem, lock, nextId, ncreate, createdBy, retried, holder, arg, loc>>

\* The caller takes the response; the slot is free for the next call.
Return(e) ==
    /\ pc[e] = "done"
    /\ pc' = [pc EXCEPT ![e] = "idle"]
    /\ arg' = [arg EXCEPT ![e] = NoArg]
    /\ loc' = [loc EXCEPT ![e] = NoLocals]
    /\ result' = [result EXCEPT ![e] = NoResult]
    /\ calls' = [calls EXCEPT ![e] = NoCalls]
    /\ UNCHANGED <<repo, idem, lock, nextId, ncreate, createdBy, retried, holder>>

\* A step of CreatePayment that needs no contended lock.
CreateStep(e) ==
    \/ CreateGet1(e)
    \/ CreateFind1(e)
    \/ CreateLock(e)
    \/ CreateSave(e)
    \/ CreateUpdate(e)
    \/ CreatePublish(e)
    \/ CreateRelease(e)

\* A step of CreatePayment after a failed acquire_lock.
ContendedStep(e) ==
    \/ CreateGet2(e)
    \/ CreateFind2(e)

RetryStep(e) ==
    \/ RetryFind(e)
    \/ RetryUpdate(e)

\* ---------------------------------------------------------- specifications
\* Concurrent executions, within the time-to-live of locks and mappings.
Next ==
    \E e \in Procs :
        \/ StartCreate(e, ValidRequests)
        \/ StartRetry(e)
        \/ CreateStep(e)
        \/ ContendedStep(e)
        \/ RetryStep(e)
        \/ Return(e)

Spec == Init /\ [][Next]_vars

\* One execution at a time, all requests.  acquire_lock never fails here
\* (no lock is held while every execution is idle), so the steps after a
\* failed acquire_lock are left out.
AllIdle == \A e \in Procs : pc[e] = "idle"

NextSeq ==
    \E e \in Procs :
        \/ AllIdle /\ StartCreate(e, AllRequests)
        \/ AllIdle /\ StartRetry(e)
        \/ AllIdle /\ StartGet(e)
        \/ GetFind(e)
        \/ CreateStep(e)
        \/ RetryStep(e)
        \/ Return(e)

SpecSeq == Init /\ [][NextSeq]_vars

\* A failure of one of the operations awaited inside the try block.
CreateFault(e) ==
    \/ CreateSaveFails(e)
    \/ CreateProcessFails(e)
    \/ CreateUpdateFails(e)
    \/ CreatePublishFails(e)

\* One accepted and one rejected request.
FaultRequests ==
    { Request(<<"F", "1">>, 1000, <<"U", "S", "D">>),
      Request(<<"F", "5">>, 0, <<"U", "S", "D">>) }

\* Concurrent CreatePayment executions whose repository, processor and
\* idempotency store may fail.
NextFault ==
    \E e \in Procs :
        \/ StartCreate(e, FaultRequests)
        \/ CreateStep(e)
        \/ ContendedStep(e)
        \/ CreateFault(e)
        \/ Return(e)

SpecFault == Init /\ [][NextFault]_vars

\* One accepted request.
OneRequest == { Request(<<" ", "F", "2", " ">>, 1500, <<"m", "x", "n">>) }

\* Concurrent CreatePayment executions with lock expiry and crashes.
NextTTL ==
    \/ \E e \in Procs :
          \/ StartCreate(e, OneRequest)
          \/ CreateStep(e)
          \/ ContendedStep(e)
          \/ Crash(e)
          \/ Return(e)
    \/ \E k \in Keys : ExpireLock(k)

SpecTTL == Init /\ [][NextTTL]_vars

\* Every execution that has not crashed keeps taking steps (the event loop
\* resumes a task whose awaited operation has answered).
FairSteps == \A e \in Procs : WF_vars(CreateStep(e) \/ ContendedStep(e))

SpecTTLRun == SpecTTL /\ FairSteps

\* In addition, a lock key that is set expires.
SpecTTLFair ==
    /\ SpecTTL
    /\ FairSteps
    /\ \A k \in Keys : WF_vars(ExpireLock(k))

\* No execution is running: each slot is idle or its execution has crashed.
Quiet == \A e \in Procs : pc[e] \in {"idle", "crashed"}

\* CreatePayment executions one at a time, which may crash or fail.
NextCrash ==
    \E e \in Procs :
        \/ Quiet /\ StartCreate(e, FaultRequests)
        \/ CreateStep(e)
        \* with one execution at a time a mapping that exists is found at
        \* the first lookup, so the lookup after a failed acquire_lock finds
        \* none and the execution goes on to create
        \/ CreateGet2(e)
        \/ CreateFault(e)
        \/ Crash(e)
        \/ Return(e)

SpecCrash == Init /\ [][NextCrash]_vars

\* The Payment entities increment_retries is called on directly: every
\* status with every counter up to one above the maximum, last updated
\* before the call.
Entities ==
    { [PaymentCreate(Uuid(1), 0, <<"F", "1">>, 100, <<"U", "S", "D">>)
          EXCEPT !.status = s, !.retries = r] :
        s \in PaymentStatus, r \in 0..(MAX_RETRIES + 1) }

\* A caller constructs a Payment.
EntityStart(e) ==
    /\ pc[e] = "idle"
    /\ \E p \in Entities :
         loc' = [loc EXCEPT ![e].loaded = p, ![e].payment = p]
    /\ arg' = [arg EXCEPT ![e] = [op |-> "increment_retries"]]
    /\ pc' = [pc EXCEPT ![e] = "e_increment"]
    /\ UNCHANGED <<repo, idem, lock, nextId, ncreate, createdBy, retried, holder,
                   result, calls>>

\* Payment.increment_retries on that entity.
EntityIncrement(e) ==
    /\ pc[e] = "e_increment"
    /\ LET p == loc[e].payment
       IN /\ loc' = [loc EXCEPT ![e].payment = IncrementRetries(p)]
          /\ result' = [result EXCEPT ![e] =
                 IF IncrementRaises(p) = "CannotRetry"
                 THEN CannotRetryPaymentError(p.payment_id, p.status)
                 ELSE IF IncrementRaises(p) = "MaxRetriesExceeded"
                 THEN MaxRetriesExceededError(p.payment_id, MAX_RETRIES)
                 ELSE [kind |-> "returned"]]
    /\ pc' = [pc EXCEPT ![e] = "done"]
    /\ UNCHANGED <<repo, idem, lock, nextId, ncreate, createdBy, retried, holder,
                   arg, calls>>

NextEntity ==
    \E e \in Procs : EntityStart(e) \/ EntityIncrement(e) \/ Return(e)

\* The entity's increment_retries called directly.
SpecEntity == Init /\ [][NextEntity]_vars

\* CreatePayment executions that may crash or have the processor or the
\* update fail, and RetryPayment executions called when no other execution
\* is under way.
NextPending ==
    \E e \in Procs :
        \/ StartCreate(e, OneRequest)
        \/ Quiet /\ StartRetry(e)
        \/ CreateStep(e)
        \/ ContendedStep(e)
        \/ RetryStep(e)
        \/ CreateProcessFails(e)
        \/ CreateUpdateFails(e)
        \/ Crash(e)
        \/ Return(e)

\* Every execution that has not crashed keeps taking steps.
SpecPending ==
    /\ Init /\ [][NextPending]_vars
    /\ \A e \in Procs : WF_vars(CreateStep(e) \/ ContendedStep(e) \/ RetryStep(e))

\* A failure of a port RetryPayment calls after the eligibility check.
RetryFault(e) ==
    \/ RetryProcessFails(e)
    \/ RetryUpdateFails(e)

\* RetryPayment executions, one at a time, whose processor and repository
\* may fail, over a stored payment.
NextRetryFault ==
    \E e \in Procs :
        \/ AllIdle /\ StartRetry(e)
        \/ RetryStep(e)
        \/ RetryFault(e)
        \/ Return(e)

\* The id of a payment that is no longer in the payments table.
LostId == Uuid(0)

\* The idempotency store outlived the payments table: keys may be mapped to
\* the lost payment.
InitStale ==
    /\ repo = [p \in PaymentIds |-> NoRow]
    /\ idem \in [Keys -> {None, LostId}]
    /\ lock = [k \in Keys |-> FALSE]
    /\ holder = [k \in Keys |-> 0]
    /\ nextId = 1
    /\ ncreate = 0
    /\ createdBy = [p \in PaymentIds |-> None]
    /\ retried = [p \in PaymentIds |-> 0]
    /\ pc = [e \in Procs |-> "idle"]
    /\ arg = [e \in Procs |-> NoArg]
    /\ loc = [e \in Procs |-> NoLocals]
    /\ result = [e \in Procs |-> NoResult]
    /\ calls = [e \in Procs |-> NoCalls]

\* One execution at a time over stale mappings.
SpecStale == InitStale /\ [][NextSeq]_vars

\* A payments table that already holds one row when the service starts (the
\* database file outlives the process): any row the schema admits.
StoredRows ==
    { row \in [payment_id : {Uuid(1)}, reference : {<<"F", "0">>},
               amount : {DecimalStr(1500)}, currency : {<<"M", "X", "N">>},
               status : PaymentStatus, retries : 0..(SchemaMaxRetries + 1),
               created_at : {IsoFormat(1)}, updated_at : {IsoFormat(1)}] :
      SchemaCheck(row) }

InitStored ==
    /\ \E row \in StoredRows :
         repo = [p \in PaymentIds |-> IF p = row.payment_id THEN row ELSE NoRow]
    /\ idem = [k \in Keys |-> None]
    /\ lock = [k \in Keys |-> FALSE]
    /\ holder = [k \in Keys |-> 0]
    /\ nextId = 2
    /\ ncreate = 0
    /\ createdBy = [p \in PaymentIds |-> None]
    /\ retried = [p \in PaymentIds |-> 0]
    /\ pc = [e \in Procs |-> "idle"]
    /\ arg = [e \in Procs |-> NoArg]
    /\ loc = [e \in Procs |-> NoLocals]
    /\ result = [e \in Procs |-> NoResult]
    /\ calls = [e \in Procs |-> NoCalls]

\* Concurrent RetryPayment and GetPayment executions over a stored row.
NextStored ==
    \E e \in Procs :
        \/ StartRetry(e)
        \/ RetryStep(e)
        \/ StartGet(e)
        \/ GetFind(e)
        \/ Return(e)

SpecStored == InitStored /\ [][NextStored]_vars

SpecRetryFault == InitStored /\ [][NextRetryFault]_vars

\* Tables of MaxRows payments, each in any status, created in any order.
ListIds == {Uuid(n) : n \in 1..MaxRows}

RECURSIVE Orders(_)
Orders(ids) ==
    IF ids = {} THEN {<<>>}
    ELSE UNION {{<<p>> \o o : o \in Orders(ids \ {p})} : p \in ids}

StoredTables ==
    {[p \in ListIds |->
         [payment_id |-> p, reference |-> <<"F", "0">>,
          amount |-> DecimalStr(1500), currency |-> <<"M", "X", "N">>,
          status |-> st[p],
          retries |-> IF st[p] = EXHAUSTED THEN MAX_RETRIES ELSE 0,
          created_at |-> IsoFormat(CHOOSE i \in 1..MaxRows : o[i] = p),
          updated_at |-> IsoFormat(MaxRows)]] :
       st \in [ListIds -> ListStatuses], o \in Orders(ListIds)}

InitList ==
    /\ repo \in StoredTables
    /\ idem = [k \in Keys |-> None]
    /\ lock = [k \in Keys |-> FALSE]
    /\ holder = [k \in Keys |-> 0]
    /\ nextId = MaxRows + 1
    /\ ncreate = 0
    /\ createdBy = [p \in ListIds |-> None]
    /\ retried = [p \in ListIds |-> 0]
    /\ pc = [e \in Procs |-> "idle"]
    /\ arg = [e \in Procs |-> NoArg]
    /\ loc = [e \in Procs |-> NoLocals]
    /\ result = [e \in Procs |-> NoResult]
    /\ calls = [e \in Procs |-> NoCalls]

\* The status filters of the requests: absent, empty, the four statuses, and
\* strings that are not a status.
StatusFilters == {None, "", "failed", "UNKNOWN"} \cup PaymentStatus

\* ListPayments executions, one at a time, over a stored table.
NextList ==
    \E e \in Procs :
        \/ AllIdle /\ StartList(e, StatusFilters, 1..MaxRows, 0..MaxRows)
        \/ ListFindAll(e)
        \/ ListCount(e)
        \/ Return(e)

SpecList == InitList /\ [][NextList]_vars

\* No CreatePayment or RetryPayment execution is under way or waiting for
\* its caller: every slot is free or serves ListPayments.
OnlyLists == \A f \in Procs : arg[f].op \in {"none", "list"}

\* ListPayments executions, unfiltered or filtered by FAILED, concurrent with
\* CreatePayment and RetryPayment executions; the latter are called one
\* after the other, so no acquire_lock is refused.
NextListLive ==
    \E e \in Procs :
        \/ StartList(e, {None, FAILED}, {MaxRows}, {0})
        \/ ListFindAll(e)
        \/ ListCount(e)
        \/ OnlyLists /\ StartCreate(e, OneRequest)
        \/ OnlyLists /\ StartRetry(e)
        \/ CreateStep(e)
        \/ RetryStep(e)
        \/ Return(e)

SpecListLive == Init /\ [][NextListLive]_vars

\* ------------------------------------------------------------------ claims
\* Every stored row satisfies the CHECK constraints of the table.
RowsAdmitted == \A p \in PaymentIds : repo[p] # NoRow => SchemaCheck(repo[p])

\* Execution e has raised the error of the given kind.
Raised(e, error) == result[e].kind = "error" /\ result[e].error = error

\* Executions that have finished and whose response is not yet taken.
DoneCreate(e) == pc[e] = "done" /\ arg[e].op = "create"
DoneRetry(e) == pc[e] = "done" /\ arg[e].op = "retry"

\* The payments that repository.save stored for idempotency key k.
SavedFor(k) == {p \in PaymentIds : createdBy[p] = k}

NoWrites(e) ==
    /\ calls[e]["save"] = 0
    /\ calls[e]["update"] = 0
    /\ calls[e]["process"] = 0
    /\ calls[e]["process_retry"] = 0

\* C1 (sequential idempotency): executions one after the other, no expiry.
\* A CreatePayment call that starts when its key k is already mapped to
\* payment p returns p with is_new = FALSE and saves nothing, and
\* repository.save has stored at most one payment for k.
C1_SequentialIdempotency ==
    \A k \in Keys :
        /\ Cardinality(SavedFor(k)) <= 1
        /\ \A e \in Procs :
             (DoneCreate(e) /\ arg[e].idempotency_key = k /\ arg[e].mapped # None)
             => /\ result[e].kind = "ok"
                /\ result[e].payment.payment_id = arg[e].mapped
                /\ result[e].is_new = FALSE
                /\ createdBy[arg[e].mapped] = k
                /\ calls[e]["save"] = 0

C1_Witness ==
    \E e \in Procs :
        /\ DoneCreate(e) /\ arg[e].mapped # None
        /\ result[e].kind = "ok" /\ result[e].is_new = FALSE

\* C2 (concurrent deduplication): under every interleaving of CreatePayment
\* executions with the same key, repository.save stores at most one payment
\* for the key, all executions return the same payment_id, and no two of
\* them report is_new = TRUE.
C2_ConcurrentDeduplication ==
    \A k \in Keys :
        /\ Cardinality(SavedFor(k)) <= 1
        /\ \A e, f \in Procs :
             ( /\ DoneCreate(e) /\ arg[e].idempotency_key = k
               /\ DoneCreate(f) /\ arg[f].idempotency_key = k
               /\ result[e].kind = "ok" /\ result[f].kind = "ok" /\ e # f )
             => /\ result[e].payment.payment_id = result[f].payment.payment_id
                /\ ~(result[e].is_new /\ result[f].is_new)

\* C3 (creation outcome): a CreatePayment call with a request the factory
\* accepts and a key that is unused when it starts returns is_new = TRUE and
\* a payment with retries = 0 whose status is SUCCESS iff amount <= 1000 and
\* FAILED otherwise, and the repository holds that status and counter.
C3_CreateOutcome ==
    \A e \in Procs :
        ( /\ DoneCreate(e) /\ arg[e].mapped = None
          /\ CreateRejects(arg[e].reference, arg[e].amount, arg[e].currency) = None )
        => /\ result[e].kind = "ok"
           /\ result[e].is_new = TRUE
           /\ result[e].payment.retries = 0
           /\ result[e].payment.status =
                (IF arg[e].amount <= 1000 THEN SUCCESS ELSE FAILED)
           /\ repo[result[e].payment.payment_id] # NoRow
           /\ repo[result[e].payment.payment_id].status = result[e].payment.status
           /\ repo[result[e].payment.payment_id].retries = 0

C3_Witness ==
    \E e \in Procs :
        /\ DoneCreate(e) /\ arg[e].mapped = None /\ arg[e].amount = 1000
        /\ result[e].kind = "ok" /\ result[e].is_new
        /\ result[e].payment.status = SUCCESS

\* A finished RetryPayment execution that loaded a FAILED payment with
\* retries below the maximum.
EligibleRetryDone(e) ==
    /\ DoneRetry(e)
    /\ loc[e].loaded # NoPayment
    /\ loc[e].loaded.status = FAILED
    /\ loc[e].loaded.retries < 3

\* C4 as claimed: on a FAILED payment with retries = r < 3, a retry whose
\* processing fails yields FAILED and r + 1, one whose processing succeeds
\* yields SUCCESS and r + 1.
C4_RetryOutcome_Original ==
    \A e \in Procs :
        EligibleRetryDone(e)
        => /\ result[e].kind = "ok"
           /\ result[e].payment.retries = loc[e].loaded.retries + 1
           /\ result[e].payment.status =
                (IF loc[e].success THEN SUCCESS ELSE FAILED)

\* C4 as amended: on a FAILED payment with retries = r < 3, a retry whose
\* processing succeeds yields SUCCESS and r + 1; one whose processing fails
\* yields r + 1 with status FAILED when r + 1 < 3 and EXHAUSTED when
\* r + 1 = 3.
C4_RetryOutcome ==
    \A e \in Procs :
        EligibleRetryDone(e)
        => /\ result[e].kind = "ok"
           /\ result[e].payment.retries = loc[e].loaded.retries + 1
           /\ result[e].payment.status =
                (IF loc[e].success THEN SUCCESS
                 ELSE IF loc[e].loaded.retries + 1 < 3 THEN FAILED
                 ELSE EXHAUSTED)

C4_Witness ==
    \E e \in Procs :
        /\ EligibleRetryDone(e) /\ ~loc[e].success
        /\ loc[e].loaded.retries = 2
        /\ result[e].payment.status = EXHAUSTED

\* C5 (retry processing): RetryPayment on a FAILED payment with retries =
\* r < 3 calls process_retry once and process never, and one
\* repository.update persists retries = r + 1 with status SUCCESS if the
\* processing succeeded, EXHAUSTED if it failed and r + 1 = 3, FAILED if it
\* failed and r + 1 < 3.
C5_RetryPersists ==
    \A e \in Procs :
        EligibleRetryDone(e)
        => /\ calls[e]["process_retry"] = 1
           /\ calls[e]["process"] = 0
           /\ calls[e]["update"] = 1
           /\ calls[e]["save"] = 0
           /\ repo[arg[e].payment_id].retries = loc[e].loaded.retries + 1
           /\ repo[arg[e].payment_id].status =
                (IF loc[e].success THEN SUCCESS
                 ELSE IF loc[e].loaded.retries + 1 = 3 THEN EXHAUSTED
                 ELSE FAILED)
           /\ [repo[arg[e].payment_id] EXCEPT !.status = FAILED, !.retries = 0,
                                               !.updated_at = <<>>]
                = [RowOf(loc[e].loaded) EXCEPT !.retries = 0, !.updated_at = <<>>]

C5_Witness ==
    \E e \in Procs :
        /\ EligibleRetryDone(e) /\ loc[e].success
        /\ loc[e].loaded.retries = 1
        /\ repo[arg[e].payment_id].status = SUCCESS
        /\ repo[arg[e].payment_id].retries = 2

\* C6 (no retry outside FAILED): a RetryPayment execution that loads a
\* payment in status SUCCESS, EXHAUSTED or PENDING raises CannotRetry and
\* writes nothing: no repository.update and no processor call.
C6_CannotRetry ==
    \A e \in Procs :
        ( /\ DoneRetry(e) /\ loc[e].loaded # NoPayment
          /\ loc[e].loaded.status \in {SUCCESS, EXHAUSTED, PENDING} )
        => /\ Raised(e, "CannotRetry")
           /\ NoWrites(e)
           /\ loc[e].payment = NoPayment

C6_Witness ==
    \E e \in Procs :
        /\ DoneRetry(e) /\ loc[e].loaded # NoPayment
        /\ loc[e].loaded.status = EXHAUSTED
        /\ Raised(e, "CannotRetry")
        /\ repo[arg[e].payment_id].status = EXHAUSTED

\* C7 (retries used up): a RetryPayment execution that loads a FAILED
\* payment with retries = 3 raises MaxRetriesExceeded and writes nothing; the
\* stored payment stays FAILED with retries = 3.
C7_MaxRetriesExceeded ==
    \A e \in Procs :
        ( /\ DoneRetry(e) /\ loc[e].loaded # NoPayment
          /\ loc[e].loaded.status = FAILED /\ loc[e].loaded.retries = 3 )
        => /\ Raised(e, "MaxRetriesExceeded")
           /\ NoWrites(e)
           /\ repo[arg[e].payment_id] = RowOf(loc[e].loaded)

C7_Witness ==
    \E e \in Procs :
        /\ DoneRetry(e) /\ loc[e].loaded # NoPayment
        /\ loc[e].loaded.status = FAILED /\ loc[e].loaded.retries = 3
        /\ Raised(e, "MaxRetriesExceeded")
        /\ repo[arg[e].payment_id].status = FAILED
        /\ repo[arg[e].payment_id].retries = 3

\* The steps of the scenario of C8 up to the third failed retry: a payment
\* created with amount 1500 is FAILED with retries 0, and failed retries take
\* it to FAILED/1, FAILED/2, EXHAUSTED/3, in the response and in the store.
ScenarioSteps ==
    \A e \in Procs :
        /\ (DoneCreate(e) /\ arg[e].amount = 1500 /\ arg[e].mapped = None
            /\ CreateRejects(arg[e].reference, arg[e].amount, arg[e].currency) = None)
           => /\ result[e].kind = "ok"
              /\ result[e].payment.status = FAILED
              /\ result[e].payment.retries = 0
        /\ (DoneRetry(e) /\ loc[e].loaded # NoPayment /\ loc[e].loaded.amount = 1500
            /\ loc[e].loaded.status = FAILED /\ ~loc[e].success)
           => /\ result[e].kind = "ok"
              /\ <<loc[e].loaded.retries, result[e].payment.status,
                   result[e].payment.retries>>
                   \in {<<0, FAILED, 1>>, <<1, FAILED, 2>>, <<2, EXHAUSTED, 3>>}
              /\ repo[arg[e].payment_id].status = result[e].payment.status
              /\ repo[arg[e].payment_id].retries = result[e].payment.retries

\* What a further RetryPayment raises once the payment of the scenario is
\* EXHAUSTED with retries 3.
FurtherRetryRaises(error) ==
    \A e \in Procs :
        ( /\ DoneRetry(e) /\ loc[e].loaded # NoPayment
          /\ loc[e].loaded.amount = 1500
          /\ loc[e].loaded.status = EXHAUSTED /\ loc[e].loaded.retries = 3 )
        => Raised(e, error)

\* C8 as claimed: the scenario, and a further RetryPayment raises
\* MaxRetriesExceeded.
C8_Scenario_Original == ScenarioSteps /\ FurtherRetryRaises("MaxRetriesExceeded")

\* C8 as amended: a payment created with amount 1500 is FAILED with retries
\* 0; three RetryPayment calls whose processing fails leave it FAILED/1,
\* FAILED/2, then EXHAUSTED/3; a further RetryPayment raises CannotRetry.
C8_Scenario == ScenarioSteps /\ FurtherRetryRaises("CannotRetry")

C8_Witness ==
    \E e \in Procs :
        /\ DoneRetry(e) /\ loc[e].loaded # NoPayment
        /\ loc[e].loaded.amount = 1500
        /\ loc[e].loaded.status = EXHAUSTED /\ loc[e].loaded.retries = 3
        /\ Raised(e, "CannotRetry")

\* C9 (terminal states are absorbing): once the stored status of a payment
\* is SUCCESS or EXHAUSTED, no step changes its stored row.
C9_TerminalAbsorbing ==
    [][\A p \in PaymentIds :
          (repo[p] # NoRow /\ StatusIsFinal(repo[p].status)) => repo'[p] = repo[p]]_vars

\* C10 (retries bounded): every stored payment has 0 <= retries <= 3.
C10_RetriesBounded ==
    \A p \in PaymentIds :
        repo[p] # NoRow => (repo[p].retries >= 0 /\ repo[p].retries <= 3)

C10_Witness ==
    \E p \in PaymentIds, e \in Procs :
        /\ repo[p] # NoRow /\ repo[p].retries = 3
        /\ pc[e] = "r_update" /\ arg[e].payment_id = p
        /\ loc[e].payment.retries = 3

\* C11 (at most three attempts): under every interleaving of RetryPayment
\* executions, process_retry is invoked at most MAX_RETRIES (3) times for
\* one payment.
C11_AtMostThreeAttempts == \A p \in PaymentIds : retried[p] <= 3

\* The executions that hold the lock of key k: acquired, not yet released.
Holders(k) ==
    {e \in Procs : /\ arg[e].op = "create" /\ arg[e].idempotency_key = k
                   /\ loc[e].lock_acquired
                   /\ pc[e] \in {"c_save", "c_update", "c_publish", "c_release"}}

\* C12 (lock release on every exit path): a CreatePayment execution that
\* acquired the lock has called release_lock exactly once when it ends,
\* whether it returns, raises ValidationError, or a repository, processor or
\* save_result failure is raised; one that did not acquire it never calls
\* release_lock; and a lock is held only while an execution that acquired it
\* is still running.
C12_LockReleased ==
    /\ \A e \in Procs :
         /\ DoneCreate(e) =>
              calls[e]["release_lock"] = (IF loc[e].lock_acquired THEN 1 ELSE 0)
         /\ calls[e]["release_lock"] <= 1
    /\ \A k \in Keys : lock[k] => Holders(k) # {}

C12_Witness ==
    \E e \in Procs :
        /\ DoneCreate(e) /\ loc[e].lock_acquired
        /\ result[e] = Raise("RepositoryError")
        /\ calls[e]["release_lock"] = 1
        /\ ~lock[arg[e].idempotency_key]

\* A request the rules of C13 reject: reference empty or blank, amount zero
\* or negative, or a currency whose length is not 3.
Invalid(a) ==
    \/ \A i \in 1..Len(a.reference) : a.reference[i] \in Whitespace
    \/ a.amount <= 0
    \/ Len(a.currency) # 3

\* C13 (validation before persistence): a CreatePayment call with an unused
\* key and an invalid request raises ValidationError and writes nothing: no
\* repository.save, no repository.update, no processor call, and no
\* idempotency mapping is published.
C13_ValidationNoWrites ==
    \A e \in Procs :
        (DoneCreate(e) /\ arg[e].mapped = None /\ Invalid(arg[e]))
        => /\ result[e] = Raise("ValidationError")
           /\ NoWrites(e)
           /\ calls[e]["save_result"] = 0
           /\ idem[arg[e].idempotency_key] = None

C13_Witness ==
    \E e \in Procs :
        /\ DoneCreate(e) /\ arg[e].mapped = None /\ arg[e].amount = 0
        /\ result[e] = Raise("ValidationError")
        /\ calls[e]["acquire_lock"] = 1

\* A finished CreatePayment execution whose acquire_lock returned false.
LockRefusedDone(e) ==
    DoneCreate(e) /\ calls[e]["acquire_lock"] = 1 /\ ~loc[e].lock_acquired

\* C14 (a refused lock is not an error): a CreatePayment execution with an
\* accepted request whose acquire_lock returned false either returns the
\* payment mapped at the re-check with is_new = FALSE and saves nothing, or
\* saves, processes and persists a new payment, publishes its mapping and
\* returns it with is_new = TRUE; no error is raised.
C14_LockRefusalNotError ==
    \A e \in Procs :
        LockRefusedDone(e)
        => /\ result[e].kind = "ok"
           /\ \/ /\ result[e].is_new = FALSE
                 /\ loc[e].existing # None
                 /\ result[e].payment.payment_id = loc[e].existing
                 /\ NoWrites(e) /\ calls[e]["save_result"] = 0
              \/ /\ result[e].is_new = TRUE
                 /\ calls[e]["save"] = 1 /\ calls[e]["process"] = 1
                 /\ calls[e]["update"] = 1 /\ calls[e]["save_result"] = 1
                 /\ repo[result[e].payment.payment_id] # NoRow
                 /\ repo[result[e].payment.payment_id].status # PENDING
                 /\ idem[arg[e].idempotency_key] # None

C14_Witness ==
    \E e \in Procs :
        /\ LockRefusedDone(e)
        /\ result[e].kind = "ok" /\ result[e].is_new = TRUE
        /\ calls[e]["release_lock"] = 0

\* C15 (idempotent replay has no effect): a step of a CreatePayment
\* execution that looks up its key or loads the mapped payment leaves
\* repository, mappings and locks unchanged, and an execution that finds the
\* mapping and the payment it names returns that payment with is_new = FALSE
\* having called get_existing_result and find_by_id once each and nothing
\* else: no save, update, processor, acquire_lock, release_lock, save_result.
C15_ReplayNoEffect ==
    [][\A e \in Procs :
          (pc[e] \in {"c_get1", "c_find1"} /\ pc'[e] # pc[e])
          => /\ repo' = repo /\ idem' = idem /\ lock' = lock
             /\ pc'[e] = "done"
                => /\ result'[e].kind = "ok"
                   /\ result'[e].is_new = FALSE
                   /\ result'[e].payment.payment_id = loc[e].existing
                   /\ calls'[e] = [NoCalls EXCEPT !["get_existing_result"] = 1,
                                                  !["find_by_id"] = 1]]_vars

C15_Witness ==
    \E e \in Procs :
        /\ DoneCreate(e) /\ result[e].kind = "ok" /\ result[e].is_new = FALSE
        /\ calls[e]["acquire_lock"] = 0 /\ calls[e]["find_by_id"] = 1
        /\ result[e].payment.payment_id = loc[e].existing

\* C16 (acquire_lock is an atomic test-and-set): at most one execution holds
\* the lock of a key at a time, and while one holds it the lock key is set,
\* so every other acquire_lock for the key returns false.
C16_LockExclusive ==
    \A k \in Keys :
        /\ Cardinality(Holders(k)) <= 1
        /\ Holders(k) # {} => lock[k]

C16_Witness ==
    \E e, f \in Procs :
        /\ arg[e].op = "create" /\ e \in Holders(arg[e].idempotency_key)
        /\ pc[f] = "c_get2"
        /\ arg[f].idempotency_key = arg[e].idempotency_key
        /\ ~loc[f].lock_acquired

\* C17 (the two refusals of RetryPayment): a RetryPayment execution that
\* loaded a payment raises CannotRetry, carrying the loaded status, exactly
\* when that status is not FAILED, whatever the counter; it raises
\* MaxRetriesExceeded, carrying the maximum 3, exactly when the status is
\* FAILED and retries >= 3.
C17_RefusalKinds ==
    \A e \in Procs :
        (DoneRetry(e) /\ loc[e].loaded # NoPayment)
        => /\ Raised(e, "CannotRetry") <=> loc[e].loaded.status # FAILED
           /\ Raised(e, "MaxRetriesExceeded")
                <=> (loc[e].loaded.status = FAILED /\ loc[e].loaded.retries >= 3)
           /\ Raised(e, "CannotRetry")
                => result[e].current_status = loc[e].loaded.status
           /\ Raised(e, "MaxRetriesExceeded") => result[e].max_retries = 3

C17_Witness ==
    \E e \in Procs :
        /\ DoneRetry(e) /\ loc[e].loaded # NoPayment
        /\ loc[e].loaded.status = PENDING /\ loc[e].loaded.retries = 3
        /\ Raised(e, "CannotRetry") /\ result[e].current_status = PENDING

\* C18 (lookups of an absent id): GetPayment and RetryPayment on a payment
\* id that is not in the repository raise NotFound, write nothing and call
\* no processor; GetPayment on a stored id returns the columns of the stored
\* row and never writes.
C18_NotFound ==
    [][\A e \in Procs :
          LET id == arg[e].payment_id
          IN /\ (pc[e] = "g_find" /\ pc'[e] = "done")
                => /\ repo' = repo /\ idem' = idem /\ lock' = lock
                   /\ NoWrites(e)'
                   /\ IF repo[id] = NoRow
                      THEN result'[e] = Raise("NotFound")
                      ELSE /\ result'[e].kind = "ok"
                           /\ result'[e].payment.payment_id = id
                           /\ result'[e].payment.status = repo[id].status
                           /\ result'[e].payment.retries = repo[id].retries
                           /\ result'[e].payment.reference = repo[id].reference
                           /\ result'[e].payment.currency = repo[id].currency
                           /\ result'[e].payment.created_at = repo[id].created_at
                           /\ DecimalStr(result'[e].payment.amount) = repo[id].amount
             /\ (pc[e] = "r_find" /\ pc'[e] # pc[e] /\ repo[id] = NoRow)
                => /\ repo' = repo
                   /\ pc'[e] = "done"
                   /\ result'[e] = Raise("NotFound")
                   /\ NoWrites(e)']_vars

C18_Witness ==
    \E e, f \in Procs :
        /\ pc[e] = "done" /\ arg[e].op = "get"
        /\ repo[arg[e].payment_id] = NoRow /\ result[e] = Raise("NotFound")
        /\ pc[f] = "done" /\ arg[f].op = "get"
        /\ repo[arg[f].payment_id] # NoRow /\ result[f].kind = "ok"

DoneList(e) == pc[e] = "done" /\ arg[e].op = "list"

\* C19 (invalid status filter): ListPayments with a status filter that is
\* provided but is not one of PENDING, SUCCESS, FAILED, EXHAUSTED (the empty
\* string included) raises ValidationError and reads nothing from the
\* repository.
C19_InvalidFilterRejected ==
    \A e \in Procs :
        (DoneList(e) /\ arg[e].status # None /\ arg[e].status \notin PaymentStatus)
        => /\ result[e] = Raise("ValidationError")
           /\ calls[e]["find_all"] = 0
           /\ calls[e]["count"] = 0

\* The stored payments with status s, and the number of them created after
\* payment p.
WithStatus(s) == {p \in DOMAIN repo : repo[p] # NoRow /\ repo[p].status = s}
NewerThan(p, s) ==
    Cardinality({q \in WithStatus(s) :
        FromIsoFormat(repo[q].created_at) > FromIsoFormat(repo[p].created_at)})

\* C20 (filtered page): with no concurrent writes, ListPayments(status = s,
\* limit, offset) returns only payments of status s, newest first: its i-th
\* entry is the payment of status s with offset + i - 1 newer ones, the page
\* holds every such payment at positions offset .. offset + limit - 1, and
\* total is the number of all payments of status s.
C20_FilteredPage ==
    \A e \in Procs :
        (DoneList(e) /\ arg[e].status \in PaymentStatus)
        => LET s == arg[e].status
               page == result[e].payments
           IN /\ result[e].kind = "ok"
              /\ \A i \in 1..Len(page) :
                   /\ page[i].status = s
                   /\ page[i].payment_id \in WithStatus(s)
                   /\ NewerThan(page[i].payment_id, s) = arg[e].offset + i - 1
              /\ \A i, j \in 1..Len(page) :
                   i < j => FromIsoFormat(page[i].created_at)
                              > FromIsoFormat(page[j].created_at)
              /\ Len(page) = Cardinality({p \in WithStatus(s) :
                     /\ NewerThan(p, s) >= arg[e].offset
                     /\ NewerThan(p, s) < arg[e].offset + arg[e].limit})
              /\ result[e].total = Cardinality(WithStatus(s))

C20_Witness ==
    \E e \in Procs :
        /\ DoneList(e) /\ arg[e].status = FAILED
        /\ arg[e].limit = 1 /\ arg[e].offset = 1
        /\ Len(result[e].payments) = 1 /\ result[e].total = 3
        /\ result[e].payments[1].payment_id = Uuid(1)

\* C21 (only the holder releases): a CreatePayment execution whose
\* acquire_lock returned false, or which returned at the first lookup
\* without trying the lock, never calls release_lock and so never deletes a
\* lock another execution acquired.
C21_OnlyHolderReleases ==
    \A e \in Procs :
        (arg[e].op = "create" /\ ~loc[e].lock_acquired)
        => /\ calls[e]["release_lock"] = 0
           /\ pc[e] # "c_release"
           /\ loc[e].cleared = 0

C21_Witness ==
    \E e, f \in Procs :
        /\ DoneCreate(e) /\ calls[e]["acquire_lock"] = 1 /\ ~loc[e].lock_acquired
        /\ calls[e]["release_lock"] = 0
        /\ lock[arg[e].idempotency_key]
        /\ holder[arg[e].idempotency_key] = f /\ f # e

\* C22 (release is not fenced): the release step of an execution deletes
\* the lock key of its idempotency key whichever execution set it, also
\* when the lock this execution acquired has expired and another execution
\* has acquired the lock since.
C22_UnfencedRelease ==
    [][\A e \in Procs :
          (pc[e] = "c_release" /\ pc'[e] = "done")
          => /\ ~lock'[arg[e].idempotency_key]
             /\ holder'[arg[e].idempotency_key] = 0]_vars

\* Execution e has deleted the lock of f while f is still between its
\* acquire_lock and its release_lock.
C22_Witness ==
    \E e, f \in Procs :
        /\ DoneCreate(e) /\ loc[e].lock_acquired /\ loc[e].cleared = f /\ f # e
        /\ arg[f].op = "create"
        /\ arg[f].idempotency_key = arg[e].idempotency_key
        /\ f \in Holders(arg[f].idempotency_key)
        /\ ~lock[arg[f].idempotency_key]

\* The positions of a CreatePayment execution that is under way.
Running(e) ==
    pc[e] \in {"c_get1", "c_find1", "c_lock", "c_get2", "c_find2",
               "c_save", "c_update", "c_publish", "c_release"}

Calls(e, name) == calls'[e][name] = calls[e][name] + 1

\* How often execution e has called save, process, update, save_result and
\* release_lock.
Progress(e) ==
    <<calls[e]["save"], calls[e]["process"], calls[e]["update"],
      calls[e]["save_result"], calls[e]["release_lock"]>>

\* C24 (order of the steps of a creation): in a CreatePayment execution,
\* repository.save comes first and stores PENDING with retries 0; then
\* processor.process, never process_retry; then repository.update, storing
\* SUCCESS or FAILED; then save_result, publishing key -> payment_id when the
\* final status is already stored; then release_lock if the lock is held;
\* each exactly once in an execution that returns is_new = TRUE.
C24_StepOrder ==
    [][\A e \in Procs :
          (arg[e].op = "create" /\ pc[e] # "done")
          => LET id == loc'[e].payment.payment_id
             IN /\ Calls(e, "save")
                   => /\ Progress(e) = <<0, 0, 0, 0, 0>>
                      /\ repo[id] = NoRow
                      /\ repo'[id].status = PENDING /\ repo'[id].retries = 0
                /\ Calls(e, "process")
                   => /\ Progress(e) = <<1, 0, 0, 0, 0>>
                      /\ repo[id].status = PENDING
                /\ Calls(e, "update")
                   => /\ calls'[e]["process"] = 1
                      /\ calls[e]["update"] = 0 /\ calls[e]["save_result"] = 0
                      /\ repo'[id].status \in {SUCCESS, FAILED}
                      /\ repo'[id].retries = 0
                /\ Calls(e, "save_result")
                   => /\ Progress(e) = <<1, 1, 1, 0, 0>>
                      /\ repo[id].status # PENDING
                      /\ idem'[arg[e].idempotency_key] = id
                /\ Calls(e, "release_lock")
                   => /\ Progress(e) = <<1, 1, 1, 1, 0>>
                      /\ loc[e].lock_acquired
                /\ calls'[e]["process_retry"] = 0
                /\ (pc'[e] = "done" /\ result'[e].is_new)
                   => Progress(e)' = <<1, 1, 1, 1,
                                      IF loc[e].lock_acquired THEN 1 ELSE 0>>]_vars

C24_Witness ==
    \E e \in Procs :
        /\ DoneCreate(e) /\ result[e].kind = "ok" /\ result[e].is_new
        /\ Progress(e) = <<1, 1, 1, 1, 1>>
        /\ idem[arg[e].idempotency_key] = result[e].payment.payment_id
        /\ repo[result[e].payment.payment_id].status = SUCCESS

\* Payment p is parked: stored in PENDING while no execution is on its way
\* to update it (the execution that saved it has crashed or has failed).
Parked(p) ==
    /\ repo[p] # NoRow /\ repo[p].status = PENDING
    /\ \A e \in Procs : pc[e] = "c_update" => loc[e].payment.payment_id # p

C26_StaleMapping ==
    \A e \in Procs :
        ( /\ DoneCreate(e) /\ arg[e].mapped # None
          /\ arg[e].mapped \notin DOMAIN repo
          /\ ~Invalid(arg[e]) )
        => /\ result[e].kind = "ok" /\ result[e].is_new = TRUE
           /\ calls[e]["get_existing_result"] = 1 /\ calls[e]["find_by_id"] = 1
           /\ calls[e]["acquire_lock"] = 1 /\ loc[e].lock_acquired
           /\ Progress(e) = <<1, 1, 1, 1, 1>>
           /\ result[e].payment.payment_id # arg[e].mapped
           /\ repo[result[e].payment.payment_id] # NoRow
           /\ idem[arg[e].idempotency_key] = result[e].payment.payment_id

C26_Witness ==
    \E e \in Procs :
        /\ DoneCreate(e) /\ arg[e].mapped = LostId
        /\ result[e].kind = "ok" /\ result[e].is_new
        /\ idem[arg[e].idempotency_key] = Uuid(1)
        /\ repo[Uuid(1)].status = FAILED

\* Execution e acquired the lock of key k and crashed before release_lock,
\* and the lock key it set is still there.
CrashedHolder(e, k) ==
    /\ pc[e] = "crashed" /\ arg[e].idempotency_key = k
    /\ loc[e].lock_acquired /\ calls[e]["release_lock"] = 0
    /\ lock[k] /\ holder[k] = e

\* C27 (TTL protects against a crashed holder): when an execution has
\* acquired the lock of key k and crashed without calling release_lock, the
\* lock of k eventually becomes free again, and an acquire_lock of k made
\* while the lock is free returns true.
C27_CrashedHolderExpires ==
    /\ \A e \in Procs : \A k \in Keys : CrashedHolder(e, k) ~> ~lock[k]
    /\ [][\A e \in Procs :
            (pc[e] = "c_lock" /\ pc'[e] # "c_lock" /\ pc'[e] # "crashed"
             /\ ~lock[arg[e].idempotency_key])
            => /\ loc'[e].lock_acquired
               /\ holder'[arg[e].idempotency_key] = e]_vars

\* Execution f crashed holding the lock, and a later execution e has
\* acquired the lock of the same key.
C27_Witness ==
    \E e, f \in Procs :
        /\ e # f /\ pc[f] = "crashed" /\ loc[f].lock_acquired
        /\ calls[f]["release_lock"] = 0
        /\ arg[e].op = "create"
        /\ arg[e].idempotency_key = arg[f].idempotency_key
        /\ loc[e].lock_acquired
        /\ lock[arg[e].idempotency_key] /\ holder[arg[e].idempotency_key] = e
        /\ loc[e].cleared = 0

\* C28 (increment_retries validates again): called on a payment whose
\* status is not FAILED it raises CannotRetry; on a FAILED payment with
\* retries >= 3 it raises MaxRetriesExceeded; in both cases status, retries
\* and updated_at stay as they were. Otherwise it returns with retries
\* increased by exactly 1 and the status unchanged.
C28_IncrementRetries ==
    \A e \in Procs :
        (pc[e] = "done" /\ arg[e].op = "increment_retries")
        => LET before == loc[e].loaded
               after  == loc[e].payment
               same   == /\ after.status = before.status
                         /\ after.retries = before.retries
                         /\ after.updated_at = before.updated_at
           IN /\ before.status # FAILED
                   => (Raised(e, "CannotRetry") /\ same)
              /\ (before.status = FAILED /\ before.retries >= 3)
                   => (Raised(e, "MaxRetriesExceeded") /\ same)
              /\ (before.status = FAILED /\ before.retries < 3)
                   => /\ result[e].kind = "returned"
                      /\ after.retries = before.retries + 1
                      /\ after.status = before.status

\* One call raised on a SUCCESS payment whose counter is below the maximum,
\* another raised on a FAILED payment at the maximum.
C28_Witness ==
    \E e, f \in Procs :
        /\ pc[e] = "done" /\ arg[e].op = "increment_retries"
        /\ loc[e].loaded.status = SUCCESS /\ loc[e].loaded.retries = 0
        /\ Raised(e, "CannotRetry") /\ loc[e].payment = loc[e].loaded
        /\ pc[f] = "done" /\ arg[f].op = "increment_retries"
        /\ loc[f].loaded.status = FAILED /\ loc[f].loaded.retries = 3
        /\ Raised(f, "MaxRetriesExceeded") /\ loc[f].payment = loc[f].loaded

\* The columns of a row that are fixed when the payment is saved.
Identity(row) ==
    <<row.payment_id, row.reference, row.amount, row.currency, row.created_at>>

\* This step is the repository update of an execution working on payment p.
UpdateOf(p) ==
    \E e \in Procs :
        /\ pc[e] \in {"c_update", "r_update"} /\ pc'[e] # pc[e]
        /\ Calls(e, "update")
        /\ loc[e].payment.payment_id = p

\* C29 (frame of the updates): once a payment is saved its row stays, and no
\* step changes its payment_id, reference, amount, currency or created_at;
\* a row changes only in the update of a CreatePayment or RetryPayment
\* execution working on that very payment, which changes nothing but
\* status, retries and updated_at, so no execution touches the row of
\* another payment.
C29_UpdateFrame ==
    [][\A p \in PaymentIds :
          repo[p] # NoRow
          => /\ repo'[p] # NoRow
             /\ Identity(repo'[p]) = Identity(repo[p])
             /\ repo'[p] # repo[p] => UpdateOf(p)]_vars

\* Two payments are stored, one of them retried after the other was
\* created: its row has been updated twice and the other row once.
C29_Witness ==
    \E p, q \in PaymentIds :
        /\ p # q /\ repo[p] # NoRow /\ repo[q] # NoRow
        /\ repo[p].retries >= 1 /\ repo[p].updated_at # repo[p].created_at
        /\ retried[p] >= 1
        /\ repo[q].status # PENDING /\ retried[q] = 0
        /\ repo[q].created_at # repo[p].created_at

\* C30 (published mappings point at finished payments): every idempotency
\* mapping k -> p refers to a payment p that is in the repository with a
\* status other than PENDING, and no CreatePayment execution returns a
\* payment whose status is PENDING, as a new creation or as a replay.
C30_MappingsFinished ==
    /\ \A k \in Keys :
          idem[k] # None
          => (repo[idem[k]] # NoRow /\ repo[idem[k]].status # PENDING)
    /\ \A e \in Procs :
          (DoneCreate(e) /\ result[e].kind = "ok")
          => result[e].payment.status # PENDING

\* A replay returned the mapped payment, which retries have exhausted since
\* it was created.
C30_Witness ==
    \E e \in Procs :
        /\ DoneCreate(e) /\ result[e].kind = "ok" /\ ~result[e].is_new
        /\ result[e].payment.status = EXHAUSTED
        /\ idem[arg[e].idempotency_key] = result[e].payment.payment_id
        /\ createdBy[result[e].payment.payment_id] # None
        /\ repo[result[e].payment.payment_id].status = EXHAUSTED

\* C31 (status and counter agree in the store): under every interleaving of
\* CreatePayment and RetryPayment executions each stored payment has
\* retries = 0 if it is PENDING, retries < 3 if it is FAILED and retries = 3
\* if it is EXHAUSTED; so no RetryPayment execution ends with
\* MaxRetriesExceeded.
C31_StatusCounterConsistent ==
    /\ \A p \in PaymentIds :
          repo[p] # NoRow
          => /\ repo[p].status = PENDING => repo[p].retries = 0
             /\ repo[p].status = FAILED => repo[p].retries < 3
             /\ repo[p].status = EXHAUSTED => repo[p].retries = 3
    /\ \A e \in Procs : DoneRetry(e) => ~Raised(e, "MaxRetriesExceeded")

\* One payment exhausted by overlapping retries (more attempts than the
\* counter shows) next to a payment that is FAILED with two retries.
C31_Witness ==
    \E p, q \in PaymentIds :
        /\ p # q /\ repo[p] # NoRow /\ repo[q] # NoRow
        /\ repo[p].status = EXHAUSTED /\ repo[p].retries = 3 /\ retried[p] > 3
        /\ repo[q].status = FAILED /\ repo[q].retries = 2

\* C32 (the stored counter counts completed retries): under every
\* interleaving of RetryPayment executions on one payment, the stored retries
\* of a payment never decreases, and each execution that completes its
\* repository.update leaves the stored retries exactly 1 higher than it was
\* immediately before that update.
C32_RetriesCountUpdates ==
    [][/\ \A p \in PaymentIds :
             repo[p] # NoRow => repo'[p].retries >= repo[p].retries
       /\ \A e \in Procs :
             (pc[e] = "r_update" /\ pc'[e] = "done" /\ Calls(e, "update"))
             => repo'[arg[e].payment_id].retries
                  = repo[arg[e].payment_id].retries + 1]_vars

\* C33 (mapping stability): once the idempotency store maps key k to a
\* payment, within the time-to-live of the record no step makes it map k to
\* a different payment id, under every interleaving of CreatePayment
\* executions with key k; so a payment_id returned for k with is_new = TRUE
\* is the one the mapping of k keeps.
C33_MappingStable ==
    [][\A k \in Keys : idem[k] # None => idem'[k] = idem[k]]_vars

\* C34 (a replay does not look at the request body): a CreatePayment call
\* whose key is mapped to a stored payment returns that payment, as stored,
\* with is_new = FALSE whatever reference, amount and currency it carries,
\* values the factory rejects included: it raises no ValidationError and
\* makes no write.
C34_ReplayIgnoresBody ==
    \A e \in Procs :
        ( /\ DoneCreate(e) /\ arg[e].mapped # None
          /\ arg[e].mapped \in DOMAIN repo /\ repo[arg[e].mapped] # NoRow )
        => /\ result[e].kind = "ok" /\ result[e].is_new = FALSE
           /\ result[e].payment = Response(RowToEntity(repo[arg[e].mapped]))
           /\ Progress(e) = <<0, 0, 0, 0, 0>>

\* A replay whose request the factory rejects and whose amount is not the
\* stored payment's.
C34_Witness ==
    \E e \in Procs :
        /\ DoneCreate(e) /\ arg[e].mapped # None /\ Invalid(arg[e])
        /\ result[e].kind = "ok" /\ result[e].is_new = FALSE
        /\ result[e].payment.payment_id = arg[e].mapped
        /\ result[e].payment.amount # arg[e].amount
        /\ result[e].payment.reference # Strip(arg[e].reference)

\* C35 (a replay returns the current stored state): a CreatePayment call
\* that replays a payment RetryPayment executions have changed since its
\* creation returns is_new = FALSE with the status and the retries now
\* stored, not those the creation left.
C35_ReplayCurrentState ==
    \A e \in Procs :
        ( /\ DoneCreate(e) /\ result[e].kind = "ok" /\ ~result[e].is_new
          /\ retried[result[e].payment.payment_id] >= 1 )
        => /\ result[e].payment.status = repo[result[e].payment.payment_id].status
           /\ result[e].payment.retries = repo[result[e].payment.payment_id].retries
           /\ result[e].payment.retries >= 1
           /\ result[e].payment.retries = retried[result[e].payment.payment_id]

\* Replays that returned SUCCESS/1 and EXHAUSTED/3 are both reachable.
C35_Witness ==
    \E e \in Procs :
        /\ DoneCreate(e) /\ result[e].kind = "ok" /\ ~result[e].is_new
        /\ result[e].payment.status = SUCCESS /\ result[e].payment.retries = 1
        /\ result[e].payment.amount = 1500
        /\ repo[result[e].payment.payment_id].status = SUCCESS

\* C36 (RetryPayment is all-or-nothing): when process_retry or
\* repository.update fails after the counter was incremented on the entity,
\* the stored payment has the status and the retries it had when the
\* execution started, so the failed attempt consumes no retry.
C36_RetryAllOrNothing ==
    \A e \in Procs :
        ( /\ DoneRetry(e)
          /\ Raised(e, "ProcessorError") \/ Raised(e, "RepositoryError") )
        => /\ loc[e].payment.retries = loc[e].loaded.retries + 1
           /\ repo[arg[e].payment_id].status = loc[e].loaded.status
           /\ repo[arg[e].payment_id].retries = loc[e].loaded.retries

\* Payment p is stored with status PENDING.
StoredPending(p) == repo[p] # NoRow /\ repo[p].status = PENDING

\* C37 (a payment left in PENDING is stuck): once the execution that saved
\* a payment has ended (crashed or failed) with the stored status still
\* PENDING, no step of any execution changes the payment's row again and
\* every RetryPayment that loads a PENDING payment raises CannotRetry, so
\* the payment stays PENDING for ever.  A payment gets into that state only
\* by a crash or a failure of its creator: every saved payment whose
\* creator is not stopped eventually leaves PENDING.
C37_PendingStuck ==
    /\ [][\A p \in PaymentIds :
             /\ Parked(p) => (Parked(p)' /\ repo'[p] = repo[p])
             /\ (~Parked(p) /\ Parked(p)')
                  => \E e \in Procs :
                        /\ pc[e] = "c_update" /\ loc[e].payment.payment_id = p
                        /\ pc'[e] = "crashed" \/ result'[e].kind = "error"]_vars
    /\ [](\A e \in Procs :
            (DoneRetry(e) /\ loc[e].loaded # NoPayment
             /\ loc[e].loaded.status = PENDING) => Raised(e, "CannotRetry"))
    /\ \A p \in PaymentIds :
          StoredPending(p) ~> (~StoredPending(p) \/ Parked(p))

\* The creator of p crashed after its save, a RetryPayment of p has been
\* refused, and another payment has left PENDING.
C37_Witness ==
    \E p, q \in PaymentIds, e, f \in Procs :
        /\ Parked(p) /\ pc[f] = "crashed" /\ loc[f].payment # NoPayment
        /\ loc[f].payment.payment_id = p
        /\ DoneRetry(e) /\ arg[e].payment_id = p /\ Raised(e, "CannotRetry")
        /\ loc[e].loaded.status = PENDING
        /\ q # p /\ repo[q] # NoRow /\ repo[q].status = FAILED

\* Execution e is the creator of payment p and has not yet made its update.
Creating(e, p) ==
    /\ arg[e].op = "create" /\ pc[e] = "c_update"
    /\ loc[e].payment.payment_id = p

\* C38 (creation and retry do not race on one payment): a RetryPayment
\* execution is past its eligibility check for payment p only when the
\* creator of p has completed its update of p, and the creator's update
\* replaces the PENDING row it saved, which no RetryPayment has written: it
\* never overwrites a state a RetryPayment wrote.
C38_NoCreateRetryRace ==
    /\ [](\A e, f \in Procs :
            (arg[e].op = "retry" /\ pc[e] = "r_update")
            => ~Creating(f, arg[e].payment_id))
    /\ [][\A f \in Procs : \A p \in PaymentIds :
             (Creating(f, p) /\ Calls(f, "update"))
             => /\ repo[p] = RowOf(loc[f].payment)
                /\ repo[p].status = PENDING
                /\ retried[p] = 0
                /\ repo'[p].retries = 0
                /\ repo'[p].status \in {SUCCESS, FAILED}]_vars

\* A retry is past its eligibility check for one payment while the creator
\* of another payment of the same key is about to make its update.
C38_Witness ==
    \E e, f \in Procs : \E p, q \in PaymentIds :
        /\ arg[e].op = "retry" /\ pc[e] = "r_update" /\ arg[e].payment_id = p
        /\ Creating(f, q) /\ q # p
        /\ createdBy[p] = createdBy[q]
        /\ repo[p].status = FAILED /\ repo[q].status = PENDING

\* C39 (the page is no larger than the total): every ListPayments response
\* has len(payments) <= total, also when CreatePayment and RetryPayment
\* executions run between the find_all read and the count read.
C39_PageWithinTotal ==
    \A e \in Procs :
        (DoneList(e) /\ result[e].kind = "ok")
        => Len(result[e].payments) <= result[e].total

====
